---------------------------- MODULE Spec2Model ----------------------------
(***************************************************************************)
(* t8code: the adapt engine t8_forest_adapt                                *)
(* (src/src/t8_forest/t8_forest_adapt.cxx) together with the element       *)
(* scheme operations it calls.  A forest is a sequence of trees, a tree an *)
(* SFC-ordered sequence of elements of one element class.                  *)
(***************************************************************************)
EXTENDS Integers, Sequences, FiniteSets, TLC

(***************************************************************************)
(* Bounds of the model.                                                    *)
(***************************************************************************)
\* maximum refinement level of the line class (T8_DLINE_MAXLEVEL scaled down)
MaxLevel == 3
\* number of local trees of a forest
NumTrees == 2
\* largest number of elements of a source forest handed to the first adapt
MaxFromElems == 5
\* an unrestricted predicate stops answering "refine" when the trees adapted
\* so far would grow beyond this many elements
MaxElems == 7
\* number of consecutive adapt calls of a chained run
MaxAdapts == 2
\* a forest with more elements than this is not adapted again
MaxChainElems == 10

(***************************************************************************)
(* Element classes and the element algebra (scheme operations).  An        *)
(* element is its level and its anchor in the integer grid of size         *)
(* 2^maxlevel; the line class uses x only, the quad class x and y.         *)
(***************************************************************************)
Classes == {"line", "quad"}

t8_eclass_to_dimension(ec) == IF ec = "line" THEN 1 ELSE 2

t8_element_maxlevel(ec) == IF ec = "line" THEN MaxLevel ELSE MaxLevel - 1

t8_element_num_children(ec) == 2 ^ t8_eclass_to_dimension(ec)

\* side length of an element of level l
t8_element_len(ec, l) == 2 ^ (t8_element_maxlevel(ec) - l)

t8_element_root(ec) == [level |-> 0, x |-> 0, y |-> 0]

t8_element_level(e) == e.level

t8_element_child_id(ec, e) ==
  IF e.level = 0 THEN 0
  ELSE LET h == t8_element_len(ec, e.level)
       IN  ((e.x \div h) % 2) + 2 * ((e.y \div h) % 2)

t8_element_parent(ec, e) ==
  LET h == t8_element_len(ec, e.level)
  IN  [level |-> e.level - 1,
       x |-> e.x - ((e.x \div h) % 2) * h,
       y |-> e.y - ((e.y \div h) % 2) * h]

\* fault: the level of the output is written before the side length is read
t8_element_parent_into_level_first(ec, mem, elem, parent) ==
  LET m0 == [mem EXCEPT ![parent].level = mem[elem].level - 1]
      h == t8_element_len(ec, m0[elem].level + (IF elem = parent THEN 0 ELSE 1))
      m1 == [m0 EXCEPT ![parent].x = m0[elem].x - ((m0[elem].x \div h) % 2) * h]
  IN  [m1 EXCEPT ![parent].y = m1[elem].y - ((m1[elem].y \div h) % 2) * h]

\* the parent written field by field into the element stored at parent, read
\* from the element stored at elem; both may name the same stored element
t8_element_parent_into(ec, mem, elem, parent) ==
  LET h == t8_element_len(ec, mem[elem].level)
      m1 == [mem EXCEPT ![parent].x = mem[elem].x - ((mem[elem].x \div h) % 2) * h]
      m2 == [m1 EXCEPT ![parent].y = m1[elem].y - ((m1[elem].y \div h) % 2) * h]
  IN  [m2 EXCEPT ![parent].level = m2[elem].level - 1]

\* the parent computed over the element itself
t8_element_parent_in_place(ec, e) ==
  t8_element_parent_into(ec, [elem |-> e], "elem", "elem").elem

\* the parent computed into another element
t8_element_parent_separate(ec, e) ==
  t8_element_parent_into(ec, [elem |-> e, parent |-> t8_element_root(ec)],
                         "elem", "parent").parent

t8_element_child(ec, e, i) ==
  LET h == t8_element_len(ec, e.level + 1)
  IN  [level |-> e.level + 1,
       x |-> e.x + (i % 2) * h,
       y |-> e.y + (i \div 2) * h]

\* the children in canonical (Morton) order, as a sequence indexed from 1
t8_element_children(ec, e) ==
  [i \in 1..t8_element_num_children(ec) |-> t8_element_child(ec, e, i - 1)]

\* fault: siblings in any order count as a family
t8_element_is_family_any_order(ec, fam) ==
  /\ Len(fam) = t8_element_num_children(ec)
  /\ \A i \in 1..Len(fam) :
       /\ fam[i].level > 0
       /\ t8_element_parent(ec, fam[i]) = t8_element_parent(ec, fam[1])
  /\ \A i, j \in 1..Len(fam) : i # j => fam[i] # fam[j]

t8_element_is_family(ec, fam) ==
  /\ Len(fam) = t8_element_num_children(ec)
  /\ \A i \in 1..Len(fam) :
       /\ fam[i].level > 0
       /\ t8_element_parent(ec, fam[i]) = t8_element_parent(ec, fam[1])
       /\ t8_element_child_id(ec, fam[i]) = i - 1

\* Morton index of the anchor at the maximum level
RECURSIVE t8_element_linear_id(_, _)
t8_element_linear_id(ec, e) ==
  IF e.level = 0 THEN 0
  ELSE t8_element_linear_id(ec, t8_element_parent(ec, e))
         + t8_element_child_id(ec, e)
             * t8_element_num_children(ec) ^ (t8_element_maxlevel(ec) - e.level)

\* fault: elements are ordered by their anchor, x before y
t8_element_compare_by_anchor(ec, a, b) ==
  IF a.x < b.x THEN -1
  ELSE IF a.x > b.x THEN 1
  ELSE IF a.y < b.y THEN -1
  ELSE IF a.y > b.y THEN 1
  ELSE IF a.level < b.level THEN -1
  ELSE IF a.level > b.level THEN 1
  ELSE 0

t8_element_compare(ec, a, b) ==
  LET ia == t8_element_linear_id(ec, a)
      ib == t8_element_linear_id(ec, b)
  IN  IF ia < ib THEN -1
      ELSE IF ia > ib THEN 1
      ELSE IF a.level < b.level THEN -1
      ELSE IF a.level > b.level THEN 1
      ELSE 0

\* number of maximum-level cells an element covers
t8_element_volume(ec, e) ==
  t8_element_num_children(ec) ^ (t8_element_maxlevel(ec) - e.level)


\* every element of a class up to its maximum level
Elements(ec) ==
  UNION { { [level |-> l, x |-> i * t8_element_len(ec, l),
             y |-> j * t8_element_len(ec, l)] :
              i \in 0..(2 ^ l - 1),
              j \in (IF ec = "line" THEN {0} ELSE 0..(2 ^ l - 1)) } :
          l \in 0..t8_element_maxlevel(ec) }

(***************************************************************************)
(* Committed trees: the leaf sequences that tile an element, in SFC order. *)
(***************************************************************************)
RECURSIVE Tilings(_, _, _), TilingsFrom(_, _, _, _)
\* the SFC-ordered leaf sequences with at most budget leaves that tile e
Tilings(ec, e, budget) ==
  IF budget < 1 THEN {}
  ELSE {<<e>>} \cup
       (IF e.level < t8_element_maxlevel(ec)
        THEN TilingsFrom(ec, e, 0, budget) ELSE {})
\* the leaf sequences that tile the children i, i+1, ... of e
TilingsFrom(ec, e, i, budget) ==
  LET K == t8_element_num_children(ec)
  IN  IF i = K THEN {<<>>}
      ELSE UNION { { a \o r : r \in TilingsFrom(ec, e, i + 1, budget - Len(a)) } :
                   a \in Tilings(ec, t8_element_child(ec, e, i),
                                 budget - (K - 1 - i)) }

NewTree(ec, elems, offset) ==
  [eclass |-> ec, elements |-> elems, elements_offset |-> offset]

RECURSIVE CommittedTrees(_, _, _)
\* the sequences of n committed trees with at most budget elements in total
CommittedTrees(n, budget, offset) ==
  IF n = 0 THEN {<<>>}
  ELSE UNION { UNION { { <<NewTree(ec, t, offset)>> \o f :
                         f \in CommittedTrees(n - 1, budget - Len(t),
                                              offset + Len(t)) } :
                       t \in Tilings(ec, t8_element_root(ec), budget - (n - 1)) } :
               ec \in Classes }

RECURSIVE SumLen(_)
SumLen(trees) ==
  IF trees = <<>> THEN 0 ELSE Len(trees[1].elements) + SumLen(Tail(trees))

\* a committed forest over the given trees (one process: global = local)
CommittedForest(trees) ==
  [trees |-> trees, local_num_elements |-> SumLen(trees),
   global_num_elements |-> SumLen(trees), committed |-> TRUE]

\* t8_forest_init + set_adapt: the target forest before t8_forest_adapt
UncommittedForest(from) ==
  [trees |-> [i \in 1..Len(from.trees) |->
                NewTree(from.trees[i].eclass, <<>>, 0)],
   local_num_elements |-> 0, global_num_elements |-> 0, committed |-> FALSE]

(***************************************************************************)
(* User callbacks.                                                         *)
(***************************************************************************)
PredicateKinds == {"any", "zero", "refine_all", "coarsen_all"}

\* the answers a predicate of the given kind may give on a window of n
\* elements; every kind but "overrefine" obeys the contract: -1 only on a
\* family window (n = num_children), no +1 at the maximum level.  The kind
\* "overrefine" breaks it: it answers +1 on every element of the maximum
\* level
adapt_fn(kind, ec, n, elems, room) ==
  LET K == t8_element_num_children(ec)
      below == elems[1].level < t8_element_maxlevel(ec)
  IN  CASE kind = "zero" -> {0}
        [] kind = "refine_all" -> IF below THEN {1} ELSE {0}
        [] kind = "coarsen_all" -> IF n = K THEN {-1} ELSE {0}
        [] kind = "flip" -> IF n = K THEN {-1} ELSE IF below THEN {1} ELSE {0}
        [] kind = "overrefine" -> IF below
                                  THEN {0} \cup (IF room THEN {1} ELSE {})
                                  ELSE {1}
        [] OTHER -> {0} \cup (IF n = K THEN {-1} ELSE {})
                        \cup (IF below /\ room THEN {1} ELSE {})

Range(seq) == { seq[i] : i \in DOMAIN seq }

\* the user data of a committed tree: element i carries tag offset + i
SourceTags(tree) ==
  [e \in Range(tree.elements) |->
     tree.elements_offset
       + (CHOOSE i \in 1..Len(tree.elements) : tree.elements[i] = e)]

\* the tag the user finds for an element, 0 for an element without data
TagOf(tags, e) == IF e \in DOMAIN tags THEN tags[e] ELSE 0

\* a replace callback that copies the tag of old[0] to every new element
replace_fn(tags, old, new) ==
  [e \in DOMAIN tags \cup Range(new) |->
     IF e \in Range(new) THEN TagOf(tags, old[1]) ELSE tags[e]]

\* records of the callback invocations and pushes of one step
AdaptCall(loop, n, elems, ret) ==
  [op |-> "adapt", loop |-> loop, n |-> n, elems |-> elems, ret |-> ret,
   nnew |-> 0, new |-> <<>>]
ReplaceCall(nold, old, nnew, new) ==
  [op |-> "replace", loop |-> "", n |-> nold, elems |-> old, ret |-> 0,
   nnew |-> nnew, new |-> new]
PushCall(elems) ==
  [op |-> "push", loop |-> "", n |-> Len(elems), elems |-> elems, ret |-> 0,
   nnew |-> 0, new |-> <<>>]
\* t8_element_array_index on an array of count elements
IndexCall(index, count) ==
  [op |-> "index", loop |-> "", n |-> index, elems |-> <<>>, ret |-> count,
   nnew |-> 0, new |-> <<>>]
ChildrenCall(elem) ==
  [op |-> "children", loop |-> "", n |-> 1, elems |-> <<elem>>, ret |-> 0,
   nnew |-> 0, new |-> <<>>]

(***************************************************************************)
(* State.                                                                  *)
(***************************************************************************)
VARIABLES
  forest_from,          \* forest->set_from, the committed source forest
  forest,               \* the target forest
  set_adapt_fn,         \* kind of the predicate forest->set_adapt_fn
  set_adapt_recursive,  \* forest->set_adapt_recursive
  set_replace_fn,       \* TRUE iff forest->set_replace_fn != NULL
  pc,                   \* position in t8_forest_adapt
  tt,                   \* index of the current tree (from 0)
  el_considered, el_inserted, el_coarsen, el_offset,
  refine,               \* the last return value of the predicate in the main loop
  refine_list,          \* the list of elements still to be refined recursively
  pos, isfamily,        \* locals of t8_forest_adapt_coarsen_recursive
  failed,               \* line of the first failed T8_ASSERT or abort, 0 if none
  calls,                \* callback invocations and pushes of the last step
  utag,                 \* user data: per tree, the tag of each element
  origin,               \* per element of the current target tree: how it got there
  answers,              \* the return values of the predicate for the current tree
  adapts,               \* the predicate and recursive flag of every adapt call so far
  life,                 \* configuration and reference counts of the target forest
  reader,               \* the triangle/tetgen file reader and the coarse mesh it builds
  forest_orig           \* the source forest of the first adapt call

vars == <<forest_from, forest, set_adapt_fn, set_adapt_recursive,
          set_replace_fn, pc, tt, el_considered, el_inserted, el_coarsen,
          el_offset, refine, refine_list, pos, isfamily, failed, calls, utag,
          origin, answers, adapts, life, reader, forest_orig>>

locals == <<el_considered, el_inserted, el_coarsen, refine, refine_list,
            pos, isfamily, origin, answers>>

\* forest->set_adapt_recursive as the integer the forest stores
RecursiveFlag(recursive) == IF recursive THEN 1 ELSE 0

\* the forest object after t8_forest_init: one reference, nothing configured;
\* the coarse mesh and the scheme exist with the creator's reference, and
\* with a second one if the creator keeps its own (keep_cmesh, keep_scheme)
t8_forest_init(keep_cmesh, keep_scheme) ==
  [stage |-> "init", rc |-> 1,
   cmesh |-> FALSE, scheme |-> FALSE, level |-> -1,
   set_from |-> FALSE, from_method |-> "T8_FOREST_FROM_LAST",
   set_adapt_recursive |-> -1, commits |-> 0,
   keep_cmesh |-> keep_cmesh, keep_scheme |-> keep_scheme,
   cmesh_rc |-> IF keep_cmesh THEN 2 ELSE 1,
   scheme_rc |-> IF keep_scheme THEN 2 ELSE 1]

\* t8_forest_set_adapt: the source, the from-method and the recursive flag
\* are set together; the target shares the scheme of its source
t8_forest_set_adapt(l, recursive) ==
  [l EXCEPT !.set_from = TRUE,
            !.from_method = "T8_FOREST_FROM_ADAPT",
            !.set_adapt_recursive = RecursiveFlag(recursive),
            !.scheme = TRUE,
            !.scheme_rc = IF l.scheme THEN @ ELSE @ + 1]

\* the target forest of an adapt whose commit has been called
AdaptTarget(recursive) ==
  [t8_forest_set_adapt(t8_forest_init(FALSE, FALSE), recursive)
     EXCEPT !.stage = "commit", !.commits = 1]

\* no file is being read
NoReader == [at |-> "idle"]

SourceForests ==
  { CommittedForest(trees) : trees \in CommittedTrees(NumTrees, MaxFromElems, 0) }

RECURSIVE SparseTrees(_, _, _)
\* the sequences of n committed trees, with at most budget elements in
\* total, in which a tree may have no element
SparseTrees(n, budget, offset) ==
  IF n = 0 THEN {<<>>}
  ELSE UNION { UNION { { <<NewTree(ec, t, offset)>> \o f :
                         f \in SparseTrees(n - 1, budget - Len(t),
                                           offset + Len(t)) } :
                       t \in Tilings(ec, t8_element_root(ec), budget)
                               \cup {<<>>} } :
               ec \in Classes }

\* the committed forests that have a tree with no element
SparseForests ==
  { CommittedForest(trees) :
      trees \in { s \in SparseTrees(NumTrees, MaxFromElems, 0) :
                    \E i \in 1..Len(s) : s[i].elements = <<>> } }

InitOn(sources, kinds) ==
  /\ forest_from \in sources
  /\ forest = UncommittedForest(forest_from)
  /\ forest_orig = forest_from
  /\ set_adapt_fn \in kinds
  /\ set_adapt_recursive \in BOOLEAN
  /\ set_replace_fn \in BOOLEAN
  /\ pc = "start"
  /\ tt = 0
  /\ el_considered = 0 /\ el_inserted = 0 /\ el_coarsen = 0 /\ el_offset = 0
  /\ refine = 0
  /\ refine_list = <<>>
  /\ pos = 0 /\ isfamily = 0
  /\ failed = 0
  /\ calls = <<>>
  /\ utag = [i \in 1..Len(forest_from.trees) |-> SourceTags(forest_from.trees[i])]
  /\ origin = <<>>
  /\ answers = <<>>
  /\ adapts = <<[fn |-> set_adapt_fn, recursive |-> set_adapt_recursive]>>
  /\ life = AdaptTarget(set_adapt_recursive)
  /\ reader = NoReader

InitWith(kinds) == InitOn(SourceForests, kinds)

Init == InitWith(PredicateKinds)

\* the current trees and their scheme
tree == forest.trees[tt + 1]
tree_from == forest_from.trees[tt + 1]
telements == tree.elements
telements_from == tree_from.elements
num_el_from == Len(telements_from)
eclass == tree.eclass
num_children == t8_element_num_children(eclass)

SetElements(elems) == [forest EXCEPT !.trees[tt + 1].elements = elems]

settings == <<set_adapt_fn, set_adapt_recursive, set_replace_fn, adapts,
              life, reader, forest_orig>>

config == <<forest_from, settings>>

\* T8_ASSERT (cond) at the given line: a build with T8_ENABLE_DEBUG stops
\* there, any other build goes on; the first failure is recorded and the
\* run of the build without assertions is followed
Asserted(f, cond, line) == IF f = 0 /\ ~cond THEN line ELSE f

\* SC_ABORT at the given source line ends the run in every build
Abort(line) ==
  /\ failed' = line
  /\ pc' = "abort"
  /\ calls' = <<>>
  /\ UNCHANGED <<config, forest, tt, el_offset, locals, utag>>

\* the tags after an invocation of the replace callback, if one is set
Replaced(old, new) ==
  IF set_replace_fn
  THEN [utag EXCEPT ![tt + 1] = replace_fn(@, old, new)]
  ELSE utag

\* fault: the old and the new elements are handed over in the wrong order
ReplaceCalls_swapped(old, new) ==
  IF set_replace_fn
  THEN <<ReplaceCall(Len(new), new, Len(old), old)>>
  ELSE <<>>

\* the invocation of the replace callback, if one is set
ReplaceCalls(old, new) ==
  IF set_replace_fn
  THEN <<ReplaceCall(Len(old), old, Len(new), new)>>
  ELSE <<>>

Marks(n, m) == [i \in 1..n |-> m]

(***************************************************************************)
(* t8_forest_adapt: entry, and the set-up of one tree.                     *)
(***************************************************************************)
\* the assertions at the entry of t8_forest_adapt
adapt_entry_asserts(f) ==
  Asserted(Asserted(Asserted(Asserted(Asserted(f,
    life.stage # "released", 173),
    life.set_from, 174),
    life.set_adapt_recursive # -1, 175),
    life.from_method = "T8_FOREST_FROM_ADAPT", 176),
    Len(forest.trees) = Len(forest_from.trees), 184)

t8_forest_adapt_begin ==
  /\ pc = "start"
  /\ failed' = adapt_entry_asserts(failed)
  /\ forest' = [forest EXCEPT !.local_num_elements = 0]
  /\ el_offset' = 0
  /\ tt' = 0
  /\ pc' = IF Len(forest.trees) > 0 THEN "tree" ELSE "finish"
  /\ calls' = <<>>
  /\ UNCHANGED <<config, locals, utag>>

\* fault: the cursor into the source tree is not reset for the next tree
tree_begin_considered_stale(previous) == previous

\* the cursor into the source tree when the adapt of a tree begins
tree_begin_considered(previous) == 0

\* the indices of the source tree read before the main loop: element 0 is
\* handed to t8_element_num_children, whatever the length of the tree
num_children_index(count) == <<0>>

TreeBegin ==
  /\ pc = "tree"
  /\ el_considered' = tree_begin_considered(el_considered)
  /\ el_inserted' = 0
  /\ el_coarsen' = 0
  /\ origin' = <<>>
  /\ answers' = <<>>
  /\ pc' = "main"
  /\ calls' = [i \in 1..Len(num_children_index(num_el_from)) |->
                 IndexCall(num_children_index(num_el_from)[i], num_el_from)]
  /\ UNCHANGED <<config, forest, tt, el_offset, refine, refine_list, pos,
                 isfamily, failed, utag>>

(***************************************************************************)
(* The main loop of a tree.                                                *)
(***************************************************************************)
\* fault: the window loop does not compare the child ids
window_end_ignore_child_id(ec, from, considered, zz) ==
  IF Len(from) - considered >= t8_element_num_children(ec)
  THEN t8_element_num_children(ec)
  ELSE Len(from) - considered

RECURSIVE window_end(_, _, _, _)
\* the value of zz when the window loop ends
window_end(ec, from, considered, zz) ==
  IF /\ zz < t8_element_num_children(ec)
     /\ considered + zz < Len(from)
     /\ t8_element_child_id(ec, from[considered + zz + 1]) = zz
  THEN window_end(ec, from, considered, zz + 1)
  ELSE zz

\* the number of elements passed to the predicate
window_size(ec, from, considered) ==
  IF window_end(ec, from, considered, 0) = t8_element_num_children(ec)
  THEN t8_element_num_children(ec)
  ELSE 1

num_elements == window_size(eclass, telements_from, el_considered)
elements_from ==
  SubSeq(telements_from, el_considered + 1, el_considered + num_elements)

\* whether an unrestricted predicate may still answer "refine", with
\* pending other elements waiting in the refine list
Room(pending) ==
  forest.local_num_elements + el_inserted + pending + num_children
    + (num_el_from - el_considered - 1) <= MaxElems

\* what follows the insertion of one element in the branches refine <= 0
calls_coarsen_recursive(recursive, ec, elem) ==
  recursive /\ t8_element_child_id(ec, elem) = t8_element_num_children(ec) - 1

\* faults: every step advances the cursor by one / a keep advances it by
\* the family size / a refine advances it by the family size
consumed_always_one(r, K) == 1
consumed_refine_family(r, K) == IF r # 0 THEN K ELSE 1
consumed_keep_family(r, K) == IF r <= 0 THEN K ELSE 1

\* fault: a coarsening leaves the last member of the family to the next step
consumed_family_but_last(r, K) == IF r < 0 THEN K - 1 ELSE 1

\* the number of source elements a step of the main loop consumes
consumed(r, K) == IF r < 0 THEN K ELSE 1

\* fault: the popped element stays in the first slot instead of child 0
prepend_children_keep_popped(list, ch) ==
  <<t8_element_parent(eclass, ch[1])>> \o Tail(ch) \o list

\* fault: the children are prepended first child first
prepend_children_forward(list, ch) ==
  [i \in 1..Len(ch) |-> ch[Len(ch) + 1 - i]] \o list

\* the loop that prepends the children to the list, last child first
prepend_children(list, ch) == ch \o list

\* the assertion of the scheme's children function: the element has children
t8_element_children_asserts(ec, elem) == elem.level < t8_element_maxlevel(ec)

\* fault: the engine checks the level itself and keeps the element
engine_refines_checked(ec, elem, r) ==
  r > 0 /\ t8_element_children_asserts(ec, elem)

\* the engine takes the branch refine > 0 on the answer alone
engine_refines(ec, elem, r) == r > 0

\* t8_element_children is called, at the given line, on an element of the
\* maximum level: the assertion of the scheme stops the process inside the
\* call, before any child is written, pushed or reported
ChildrenAbort(call, elem, r, list, f, line) ==
  /\ failed' = Asserted(f, t8_element_children_asserts(eclass, elem), line)
  /\ pc' = "abort"
  /\ calls' = <<call, ChildrenCall(elem)>>
  /\ answers' = Append(answers, r)
  /\ refine' = IF call.loop = "main" THEN r ELSE refine
  /\ refine_list' = list
  /\ UNCHANGED <<config, forest, tt, el_offset, el_considered, el_inserted,
                 el_coarsen, pos, isfamily, utag, origin>>

\* fault: the last element of the window is the one refined
refined_element_last(from) == from[Len(from)]

\* refine > 0: the element refined is the first one of the window,
\* elements_from[0], whatever the size of the window
refined_element(from) == from[1]

\* refine > 0, not recursive: the children go to the target
MainRefine(r, f) ==
  LET ch == t8_element_children(eclass, refined_element(elements_from))
  IN  /\ forest' = SetElements(telements \o ch)
      /\ origin' = origin \o Marks(num_children, "refine")
      /\ calls' = <<AdaptCall("main", num_elements, elements_from, r), PushCall(ch)>>
                    \o ReplaceCalls(<<elements_from[1]>>, ch)
      /\ utag' = Replaced(<<elements_from[1]>>, ch)
      /\ el_inserted' = el_inserted + num_children
      /\ el_considered' = el_considered + consumed(r, num_children)
      /\ refine' = r
      /\ answers' = Append(answers, r)
      /\ failed' = f
      /\ UNCHANGED <<config, pc, tt, el_offset, el_coarsen, refine_list, pos,
                     isfamily>>

\* fault: the first index open to recursive coarsening stays at the number
\* of elements inserted before the refinement
refine_coarsen_floor_before(inserted, K) == inserted

\* the first index open to recursive coarsening, set before the children
\* are handed to the recursive refinement
refine_coarsen_floor(inserted, K) == inserted + K

\* refine > 0, recursive: the children go to the refine list
MainRefineRecursive(r, f) ==
  LET ch == t8_element_children(eclass, refined_element(elements_from))
  IN  /\ el_coarsen' = refine_coarsen_floor(el_inserted, num_children)
      /\ refine_list' = prepend_children(refine_list, ch)
      /\ calls' = <<AdaptCall("main", num_elements, elements_from, r)>>
                    \o ReplaceCalls(<<elements_from[1]>>, ch)
      /\ utag' = Replaced(<<elements_from[1]>>, ch)
      /\ refine' = r
      /\ answers' = Append(answers, r)
      /\ failed' = f
      /\ pc' = "refine"
      /\ UNCHANGED <<config, forest, tt, el_offset, el_considered, el_inserted,
                     pos, isfamily, origin>>

\* fault: the parent of a family is computed over its first member in the
\* source, as the recursive coarsening does in the target
source_after_insert_in_place(from, t, considered, r, elem) ==
  IF r < 0 THEN [from EXCEPT !.trees[t + 1].elements[considered + 1] = elem]
  ELSE from

\* the source after the branches refine <= 0: t8_element_parent and
\* t8_element_copy read elements_from[0] and write the element pushed to
\* the target
source_after_insert(from, t, considered, r, elem) == from

\* refine <= 0: one element, the parent or a copy, goes to the target
MainInsert(r, elem, mark, replaced, f) ==
  /\ forest' = SetElements(Append(telements, elem))
  /\ forest_from' = source_after_insert(forest_from, tt, el_considered, r, elem)
  /\ origin' = Append(origin, mark)
  /\ calls' = <<AdaptCall("main", num_elements, elements_from, r), PushCall(<<elem>>)>>
                \o (IF replaced THEN ReplaceCalls(elements_from, <<elem>>)
                    ELSE <<>>)
  /\ utag' = IF replaced THEN Replaced(elements_from, <<elem>>) ELSE utag
  /\ el_inserted' = el_inserted + 1
  /\ refine' = r
  /\ answers' = Append(answers, r)
  /\ IF calls_coarsen_recursive(set_adapt_recursive, eclass, elem)
     THEN \* entry of t8_forest_adapt_coarsen_recursive
          /\ failed' = Asserted(Asserted(f, el_inserted + 1 = Len(telements) + 1, 49),
                                el_coarsen >= 0, 50)
          /\ pos' = el_inserted + 1 - num_children
          /\ isfamily' = 1
          /\ pc' = "coarsen"
          /\ UNCHANGED el_considered
     ELSE /\ failed' = f
          /\ el_considered' = el_considered + consumed(r, num_children)
          /\ UNCHANGED <<pc, pos, isfamily>>
  /\ UNCHANGED <<settings, tt, el_offset, el_coarsen, refine_list>>

\* fault: a coarsened family is replaced by the parent of its parent
coarsened_element_two_levels(ec, from) ==
  IF from[1].level >= 2
  THEN t8_element_parent(ec, t8_element_parent(ec, from[1]))
  ELSE t8_element_parent(ec, from[1])

\* refine < 0: the element pushed for the family is the parent of its first
\* member
coarsened_element(ec, from) == t8_element_parent(ec, from[1])

MainLoopStep ==
  /\ pc = "main"
  /\ el_considered < num_el_from
  /\ \E r \in adapt_fn(set_adapt_fn, eclass, num_elements, elements_from,
                       Room(0)) :
       LET is_family == num_elements = num_children
           f == Asserted(Asserted(failed,
                                  ~is_family \/ t8_element_is_family(eclass, elements_from),
                                  228),
                         is_family \/ r >= 0, 231)
       IN  IF engine_refines(eclass, refined_element(elements_from), r)
             THEN IF ~t8_element_children_asserts(eclass,
                                                  refined_element(elements_from))
                    THEN ChildrenAbort(AdaptCall("main", num_elements,
                                                 elements_from, r),
                                       refined_element(elements_from), r,
                                       refine_list, f,
                                       IF set_adapt_recursive THEN 240 ELSE 262)
                  ELSE IF set_adapt_recursive THEN MainRefineRecursive(r, f)
                  ELSE MainRefine(r, f)
           ELSE IF r < 0
             THEN MainInsert(r, coarsened_element(eclass, elements_from),
                             "coarsen", TRUE, f)
           ELSE MainInsert(r, elements_from[1], "keep", FALSE, f)

(***************************************************************************)
(* t8_forest_adapt_refine_recursive: one iteration of its loop, and its    *)
(* return to the main loop.                                                *)
(***************************************************************************)
\* fault: the coarsen loop also runs after a recursive refinement
after_refine_recursive_coarsen(recursive, ec, last) ==
  IF calls_coarsen_recursive(recursive, ec, last) THEN "coarsen" ELSE "main"

\* where the main loop continues when the refine list has become empty
after_refine_recursive(recursive, ec, last) == "main"

\* fault: the list is served from its end, first in first out
sc_list_pop_last(list) ==
  [elem |-> list[Len(list)], rest |-> SubSeq(list, 1, Len(list) - 1)]

\* sc_list_pop: the first element of the list is taken off
sc_list_pop(list) == [elem |-> Head(list), rest |-> Tail(list)]

\* fault: the loop ends when one element is left on the list
refine_loop_continues_above_one(list) == Len(list) > 1

\* the loop condition elem_list->elem_count > 0
refine_loop_continues(list) == Len(list) > 0

RefineRecursiveStep ==
  /\ pc = "refine"
  /\ refine_loop_continues(refine_list)
  /\ LET el_pop == sc_list_pop(refine_list).elem
         rest == sc_list_pop(refine_list).rest
         ch == t8_element_children(eclass, el_pop)
     IN  \E r \in adapt_fn(set_adapt_fn, eclass, 1, <<el_pop>>, Room(Len(rest))) :
           IF engine_refines(eclass, el_pop, r)
                /\ ~t8_element_children_asserts(eclass, el_pop)
             THEN ChildrenAbort(AdaptCall("refine", 1, <<el_pop>>, r), el_pop,
                                r, rest, failed, 128)
           ELSE
             /\ answers' = Append(answers, r)
             /\ IF engine_refines(eclass, el_pop, r)
                THEN /\ refine_list' = prepend_children(rest, ch)
                     /\ calls' = <<AdaptCall("refine", 1, <<el_pop>>, r)>>
                                   \o ReplaceCalls(<<el_pop>>, ch)
                     /\ utag' = Replaced(<<el_pop>>, ch)
                     /\ UNCHANGED <<forest, el_inserted, origin>>
                ELSE /\ refine_list' = rest
                     /\ forest' = SetElements(Append(telements, el_pop))
                     /\ origin' = Append(origin, "refine")
                     /\ el_inserted' = el_inserted + 1
                     /\ calls' = <<AdaptCall("refine", 1, <<el_pop>>, r),
                                   PushCall(<<el_pop>>)>>
                     /\ UNCHANGED utag
             /\ UNCHANGED <<config, pc, tt, el_offset, el_considered,
                            el_coarsen, refine, pos, isfamily, failed>>

RefineRecursiveReturn ==
  /\ pc = "refine"
  /\ ~refine_loop_continues(refine_list)
  /\ LET to == after_refine_recursive(set_adapt_recursive, eclass,
                                      telements[el_inserted])
     IN  /\ pc' = to
         /\ IF to = "coarsen"
            THEN /\ pos' = el_inserted - num_children
                 /\ isfamily' = 1
                 /\ UNCHANGED el_considered
            ELSE /\ el_considered' = el_considered + consumed(refine, num_children)
                 /\ UNCHANGED <<pos, isfamily>>
  /\ calls' = <<>>
  /\ UNCHANGED <<config, forest, tt, el_offset, el_inserted, el_coarsen, refine,
                 refine_list, failed, utag, origin, answers>>

(***************************************************************************)
(* t8_forest_adapt_coarsen_recursive: one iteration of its loop, and its   *)
(* return to the main loop.  The local element always points to the last   *)
(* element of the target, telements[el_inserted - 1].                      *)
(***************************************************************************)
\* fault: the parent is computed in place over fam[0] before the callback
coarsen_replace_old_in_place(ec, fam) ==
  <<t8_element_parent(ec, fam[1])>> \o Tail(fam)

\* the old elements handed to the replace callback by the coarsen loop: the
\* parent is computed into a separate element, the family is left intact
coarsen_replace_old(ec, fam) == fam

\* fault: the coarsening loop ends after the first replacement
family_after_replacement_stop(isfam) == 0

\* isfamily after a family was replaced by its parent: the inner loop left
\* it set, so the loop goes on with the parent as the last element
family_after_replacement(isfam) == isfam

\* the parent of the family: computed into a separate element when a replace
\* callback is set, over fam[0] itself otherwise
coarsen_parent(ec, fam, with_replace) ==
  IF with_replace
  THEN t8_element_parent_separate(ec, fam[1])
  ELSE t8_element_parent_in_place(ec, fam[1])

\* the loop condition
coarsen_continues(ec, elems, inserted, coarsen, p, isfam) ==
  /\ isfam = 1
  /\ p >= coarsen
  /\ t8_element_child_id(ec, elems[inserted]) = t8_element_num_children(ec) - 1

\* the window fam[0..num_children-1] of the target
coarsen_window(ec, elems, p) ==
  SubSeq(elems, p + 1, p + t8_element_num_children(ec))

\* fault: the inner loop looks at the last element of the window only
child_ids_in_order_last_only(ec, fam) ==
  t8_element_child_id(ec, fam[Len(fam)]) = Len(fam) - 1

\* the inner loop: the child ids of the window are 0, 1, ... in order
child_ids_in_order(ec, fam) ==
  \A i \in 1..Len(fam) : t8_element_child_id(ec, fam[i]) = i - 1

\* fault: the window moves down by the whole family
coarsen_next_pos_family(p, K) == p - K

\* the start of the next window: the parent has taken the place of the
\* family, so the window moves down by num_children - 1
coarsen_next_pos(p, K) == p - (K - 1)

CoarsenRecursiveStep ==
  /\ pc = "coarsen"
  /\ coarsen_continues(eclass, telements, el_inserted, el_coarsen, pos, isfamily)
  /\ LET fam == coarsen_window(eclass, telements, pos)
         parent == coarsen_parent(eclass, fam, set_replace_fn)
     IN  IF ~child_ids_in_order(eclass, fam)
         THEN /\ isfamily' = 0
              /\ calls' = <<>>
              /\ UNCHANGED <<forest, el_inserted, origin, utag, failed, answers>>
         ELSE /\ failed' = Asserted(failed, t8_element_is_family(eclass, fam), 71)
              /\ \E r \in adapt_fn(set_adapt_fn, eclass, num_children, fam, TRUE) :
                   /\ answers' = Append(answers, r)
                   /\ IF r < 0
                      THEN /\ el_inserted' = el_inserted - (num_children - 1)
                           /\ forest' = SetElements(Append(SubSeq(telements, 1, pos),
                                                           parent))
                           /\ origin' = Append(SubSeq(origin, 1, pos),
                                               IF \A i \in 1..num_children :
                                                    origin[pos + i] = "refine"
                                               THEN "recoarsen" ELSE "coarsen")
                           /\ calls' = <<AdaptCall("coarsen", num_children, fam, r)>>
                                         \o ReplaceCalls(coarsen_replace_old(eclass, fam),
                                                         <<parent>>)
                           /\ utag' = Replaced(coarsen_replace_old(eclass, fam), <<parent>>)
                           /\ isfamily' = family_after_replacement(isfamily)
                      ELSE /\ isfamily' = 0
                           /\ calls' = <<AdaptCall("coarsen", num_children, fam, r)>>
                           /\ UNCHANGED <<forest, el_inserted, origin, utag>>
  /\ pos' = coarsen_next_pos(pos, num_children)
  /\ UNCHANGED <<config, pc, tt, el_offset, el_considered, el_coarsen, refine,
                 refine_list>>

CoarsenRecursiveReturn ==
  /\ pc = "coarsen"
  /\ ~coarsen_continues(eclass, telements, el_inserted, el_coarsen, pos, isfamily)
  /\ pc' = "main"
  /\ el_considered' = el_considered + consumed(refine, num_children)
  /\ calls' = <<>>
  /\ UNCHANGED <<config, forest, tt, el_offset, el_inserted, el_coarsen, refine,
                 refine_list, pos, isfamily, failed, utag, origin, answers>>

(***************************************************************************)
(* The end of a tree and of t8_forest_adapt.                               *)
(***************************************************************************)
\* fault: the tree's offset is taken after the running offset was advanced
tree_offset_after_update(offset, inserted) == offset + inserted

\* the tree's offset, the running offset and the local element count
tree_offset(offset, inserted) == offset
next_offset(offset, inserted) == offset + inserted
next_local_num_elements(count, inserted) == count + inserted

TreeEnd ==
  /\ pc = "main"
  /\ el_considered >= num_el_from
  /\ IF set_adapt_recursive /\ refine_list # <<>>
     THEN Abort(309)
     ELSE /\ forest' =
               [forest EXCEPT
                  !.trees[tt + 1].elements_offset = tree_offset(el_offset, el_inserted),
                  !.trees[tt + 1].elements = SubSeq(telements, 1, el_inserted),
                  !.local_num_elements =
                     next_local_num_elements(@, el_inserted)]
          /\ el_offset' = next_offset(el_offset, el_inserted)
          /\ tt' = tt + 1
          /\ pc' = IF tt + 1 < Len(forest.trees) THEN "tree" ELSE "finish"
          /\ calls' = <<>>
          /\ UNCHANGED <<config, locals, failed, utag>>

\* t8_forest_comm_global_num_elements on one process, and the commit
t8_forest_adapt_end ==
  /\ pc = "finish"
  /\ forest' = [forest EXCEPT !.global_num_elements = forest.local_num_elements,
                              !.committed = TRUE]
  /\ pc' = "done"
  /\ calls' = <<>>
  /\ UNCHANGED <<config, tt, el_offset, locals, failed, utag>>

Next ==
  \/ t8_forest_adapt_begin
  \/ TreeBegin
  \/ MainLoopStep
  \/ RefineRecursiveStep
  \/ RefineRecursiveReturn
  \/ CoarsenRecursiveStep
  \/ CoarsenRecursiveReturn
  \/ TreeEnd
  \/ t8_forest_adapt_end

Spec == Init /\ [][Next]_vars

\* the adapt loops are sequential code: a step that can be taken is taken
FairSpec == Spec /\ WF_vars(Next)

(***************************************************************************)
(* One adapt call with a predicate that is a function of its window: the   *)
(* three test predicates, and one that refines every single element below  *)
(* the maximum level and coarsens every family.                            *)
(***************************************************************************)
PureKinds == {"zero", "refine_all", "coarsen_all", "flip"}

InitPure == InitWith(PureKinds)

SpecPure == InitPure /\ [][Next]_vars

(***************************************************************************)
(* One adapt with a predicate that breaks the contract at the maximum      *)
(* level.                                                                  *)
(***************************************************************************)
ContractBreakers == {"overrefine"}

InitBroken == InitWith(ContractBreakers)

SpecBroken == InitBroken /\ [][Next]_vars

(***************************************************************************)
(* One adapt of a source forest that has a tree without elements.          *)
(***************************************************************************)
InitSparse == InitOn(SparseForests, PredicateKinds)

SpecSparse == InitSparse /\ [][Next]_vars

(***************************************************************************)
(* Chained adapt calls: the committed result of one call is the source of  *)
(* the next, with one of the three test predicates each time.              *)
(***************************************************************************)
TestPredicates == {"zero", "refine_all", "coarsen_all"}

NextAdapt ==
  /\ pc = "done"
  /\ Len(adapts) < MaxAdapts
  /\ forest.local_num_elements <= MaxChainElems
  /\ forest_from' = forest
  /\ forest' = UncommittedForest(forest)
  /\ set_adapt_fn' \in TestPredicates
  /\ set_adapt_recursive' \in BOOLEAN
  /\ adapts' = Append(adapts, [fn |-> set_adapt_fn',
                               recursive |-> set_adapt_recursive'])
  /\ life' = AdaptTarget(set_adapt_recursive')
  /\ utag' = [i \in 1..Len(forest.trees) |-> SourceTags(forest.trees[i])]
  /\ pc' = "start"
  /\ tt' = 0
  /\ calls' = <<>>
  /\ UNCHANGED <<set_replace_fn, forest_orig, el_offset, locals, failed, reader>>

InitSeq == InitWith(TestPredicates)

NextSeq == Next \/ NextAdapt

SpecSeq == InitSeq /\ [][NextSeq]_vars

(***************************************************************************)
(* The life of a forest (section 4.5 of the specification): after          *)
(* t8_forest_init the user configures the forest, commits it once and      *)
(* releases it.  The commit of an adapt target runs t8_forest_adapt; the   *)
(* commit of a forest with a coarse mesh builds the uniform forest.        *)
(***************************************************************************)
\* largest level handed to set_level
MaxUniformLevel == 1
\* largest number of elements of a source forest handed to set_adapt
MaxLifeElems == 4

\* a forest without trees: a target not yet committed, and a source whose
\* own commit was never called
PendingForest ==
  [trees |-> <<>>, local_num_elements |-> 0, global_num_elements |-> 0,
   committed |-> FALSE]

RECURSIVE UniformLeaves(_, _, _), UniformLeavesFrom(_, _, _, _)
\* the descendants of e of level l, in SFC order
UniformLeaves(ec, e, l) ==
  IF e.level >= l THEN <<e>> ELSE UniformLeavesFrom(ec, e, 0, l)
UniformLeavesFrom(ec, e, i, l) ==
  IF i = t8_element_num_children(ec) THEN <<>>
  ELSE UniformLeaves(ec, t8_element_child(ec, e, i), l)
         \o UniformLeavesFrom(ec, e, i + 1, l)

RECURSIVE UniformTrees(_, _, _)
\* one uniform tree of level l per tree class of the coarse mesh
UniformTrees(classes, l, offset) ==
  IF classes = <<>> THEN <<>>
  ELSE LET t == UniformLeaves(Head(classes), t8_element_root(Head(classes)), l)
       IN  <<NewTree(Head(classes), t, offset)>>
             \o UniformTrees(Tail(classes), l, offset + Len(t))

\* fault: commit does not look at the state of the adapt source
commit_valid_any_source(l, from) ==
  /\ l.cmesh \/ l.set_from
  /\ l.scheme

\* what commit validates: a source is configured, the scheme is set and an
\* adapt source is itself committed
commit_valid(l, from) ==
  /\ l.cmesh \/ l.set_from
  /\ l.scheme
  /\ l.from_method = "T8_FOREST_FROM_ADAPT" => from.committed

\* fault: only a committed forest gives its references back
t8_forest_unref_committed_only(l) ==
  IF l.rc > 1 THEN [l EXCEPT !.rc = @ - 1]
  ELSE [l EXCEPT !.rc = 0, !.stage = "released",
                 !.cmesh_rc = IF l.cmesh /\ l.commits > 0 THEN @ - 1 ELSE @,
                 !.scheme_rc = IF l.scheme /\ l.commits > 0 THEN @ - 1 ELSE @]

\* t8_forest_unref: the last reference releases the forest, which drops the
\* references it holds on the coarse mesh and on the scheme
t8_forest_unref(l) ==
  IF l.rc > 1 THEN [l EXCEPT !.rc = @ - 1]
  ELSE [l EXCEPT !.rc = 0, !.stage = "released",
                 !.cmesh_rc = IF l.cmesh THEN @ - 1 ELSE @,
                 !.scheme_rc = IF l.scheme THEN @ - 1 ELSE @]

\* what the adapt engine leaves alone while the user configures the forest
engine == <<forest, tt, el_offset, locals, failed, calls, utag, adapts,
            forest_from, forest_orig, set_replace_fn, reader>>

Configuring == pc = "idle" /\ life.stage = "init"

set_cmesh ==
  /\ Configuring
  /\ ~life.cmesh
  /\ life' = [life EXCEPT !.cmesh = TRUE]
  /\ UNCHANGED <<engine, pc, set_adapt_fn, set_adapt_recursive>>

set_scheme ==
  /\ Configuring
  /\ ~life.scheme
  /\ life' = [life EXCEPT !.scheme = TRUE]
  /\ UNCHANGED <<engine, pc, set_adapt_fn, set_adapt_recursive>>

set_level ==
  /\ Configuring
  /\ life.level = -1
  /\ \E l \in 0..MaxUniformLevel : life' = [life EXCEPT !.level = l]
  /\ UNCHANGED <<engine, pc, set_adapt_fn, set_adapt_recursive>>

set_adapt ==
  /\ Configuring
  /\ ~life.set_from
  /\ set_adapt_fn' \in TestPredicates
  /\ set_adapt_recursive' \in BOOLEAN
  /\ life' = t8_forest_set_adapt(life, set_adapt_recursive')
  /\ UNCHANGED <<engine, pc>>

commit ==
  /\ Configuring
  /\ IF ~commit_valid(life, forest_from)
     THEN \* a contract violation: the program ends without a committed forest
          /\ life' = [life EXCEPT !.stage = "rejected"]
          /\ pc' = "abort"
          /\ UNCHANGED <<forest, adapts>>
     ELSE IF life.from_method = "T8_FOREST_FROM_ADAPT"
     THEN \* the trees are copied from the source and t8_forest_adapt runs
          /\ life' = [life EXCEPT !.stage = "commit", !.commits = @ + 1]
          /\ forest' = UncommittedForest(forest_from)
          /\ adapts' = <<[fn |-> set_adapt_fn, recursive |-> set_adapt_recursive]>>
          /\ pc' = "start"
     ELSE \* the uniform forest of the coarse mesh
          /\ life' = [life EXCEPT !.stage = "commit", !.commits = @ + 1]
          /\ \E classes \in [1..NumTrees -> Classes] :
               forest' = CommittedForest(
                           UniformTrees(classes,
                                        IF life.level < 0 THEN 0 ELSE life.level, 0))
          /\ pc' = "done"
          /\ UNCHANGED adapts
  /\ UNCHANGED <<forest_from, forest_orig, set_adapt_fn, set_adapt_recursive,
                 set_replace_fn, tt, el_offset, locals, failed, calls, utag,
                 reader>>

unref ==
  /\ pc \in {"idle", "done"}
  /\ life.stage \in {"init", "commit"}
  /\ life' = t8_forest_unref(life)
  /\ forest' = IF life'.stage = "released" THEN PendingForest ELSE forest
  /\ UNCHANGED <<forest_from, forest_orig, set_adapt_fn, set_adapt_recursive,
                 set_replace_fn, pc, tt, el_offset, locals, failed, calls, utag,
                 adapts, reader>>

\* the sources the user may hand to set_adapt: committed forests and a
\* forest whose commit was never called
LifeSources ==
  { CommittedForest(trees) : trees \in CommittedTrees(NumTrees, MaxLifeElems, 0) }
    \cup {PendingForest}

InitLife ==
  /\ forest_from \in LifeSources
  /\ forest = PendingForest
  /\ forest_orig = forest_from
  /\ set_adapt_fn = "zero"
  /\ set_adapt_recursive = FALSE
  /\ set_replace_fn = FALSE
  /\ pc = "idle"
  /\ tt = 0
  /\ el_considered = 0 /\ el_inserted = 0 /\ el_coarsen = 0 /\ el_offset = 0
  /\ refine = 0
  /\ refine_list = <<>>
  /\ pos = 0 /\ isfamily = 0
  /\ failed = 0
  /\ calls = <<>>
  /\ utag = [i \in 1..Len(forest_from.trees) |-> SourceTags(forest_from.trees[i])]
  /\ origin = <<>>
  /\ answers = <<>>
  /\ adapts = <<>>
  /\ \E kc, ks \in BOOLEAN : life = t8_forest_init(kc, ks)
  /\ reader = NoReader

NextLife ==
  \/ set_cmesh
  \/ set_scheme
  \/ set_level
  \/ set_adapt
  \/ commit
  \/ unref
  \/ Next

SpecLife == InitLife /\ [][NextLife]_vars

(***************************************************************************)
(* The triangle/tetgen reader, t8_cmesh_from_tetgen_or_triangle_file and   *)
(* the three functions it calls (src/src/t8_cmesh/t8_cmesh_triangle.c).    *)
(* The files are read line by line: every step draws the next line the     *)
(* file may hold.  A line is the number of leading fields that sscanf can  *)
(* convert and the value of its first field; comment and blank lines are   *)
(* skipped by t8_cmesh_triangle_read_next_line and do not appear.  Vertex  *)
(* coordinates and the corners of an element are not part of the state.    *)
(***************************************************************************)
\* largest number of vertices a .node file announces
MaxCorners == 4
\* largest number of elements an .ele file announces
MaxReadElems == 2

Dims == {2, 3}

\* the index of the first node or element of a file
Bases == {0, 1}

\* the values an int that was never written may hold
Garbage == -1..2

\* every variable but the reader
forests == <<forest_from, forest, forest_orig, set_adapt_fn, set_adapt_recursive,
             set_replace_fn, pc, tt, el_offset, locals, failed, calls, utag,
             adapts, life>>

\* sscanf with n conversions over a line with k convertible leading fields
sscanf(k, n) == IF k < n THEN k ELSE n

\* the results of the second sscanf of a 3D line, over line + num_read: one
\* further field, the end of the line or text that does not convert, and, if
\* the first sscanf never reached %n, whatever num_read points to
sscanf_rest(k, n) ==
  IF k > n THEN {1}
  ELSE IF k = n THEN {-1, 0}
  ELSE {-1, 0, 1}

\* the values of retval after a line with k fields was scanned for n fields,
\* and for one more in 3D
Scanned(dim, k, n) ==
  IF dim = 3
  THEN { sscanf(k, n) + rest : rest \in sscanf_rest(k, n) }
  ELSE { sscanf(k, n) }

\* the state on entry of t8_cmesh_from_tetgen_or_triangle_file, after
\* t8_cmesh_init
ReaderStart(dim) ==
  [at |-> "nodes_open", dim |-> dim, cmesh |-> "init", failed |-> 0,
   done |-> {},
   \* t8_cmesh_triangle_read_nodes
   num_corners |-> 0, cit |-> 0, nodes_corner_offset |-> 0,
   nodes_corner_offset_set |-> FALSE, premature |-> FALSE, node_ret |-> 0,
   \* t8_cmesh_triangle_read_eles
   corner_offset |-> 0, num_elems |-> 0, tit |-> 0, triangle_offset |-> 0,
   triangle_offset_set |-> FALSE, ele_ret |-> 0,
   \* t8_cmesh_triangle_read_neigh
   element_offset |-> 0, tneighbors |-> <<>>, face1 |-> 0, neigh_ret |-> 0,
   \* the calls into the coarse mesh
   set_num_trees |-> <<>>, set_tree_class |-> <<>>, set_join |-> <<>>,
   \* what the files held
   node_fault |-> "none", node_short |-> FALSE, node_base |-> 0,
   node_base_known |-> FALSE, ele_base |-> 0, adj |-> {}]

ReaderStep(r) ==
  /\ reader' = r
  /\ UNCHANGED forests

\* the end of t8_cmesh_from_tetgen_or_triangle_file on one process: a coarse
\* mesh that was not given up is committed
reader_end(r) ==
  IF r.cmesh = "init"
  THEN [r EXCEPT !.at = "end", !.cmesh = "committed"]
  ELSE [r EXCEPT !.at = "end", !.failed = Asserted(@, FALSE, 496)]

\* the return of t8_cmesh_triangle_read_nodes to its caller
read_nodes_returns(r, retval) ==
  LET r1 == [r EXCEPT !.node_ret = retval, !.done = @ \cup {"nodes"}]
  IN  IF retval # 0 /\ retval # 1
      THEN reader_end([r1 EXCEPT !.cmesh = "null"])
      ELSE [r1 EXCEPT !.corner_offset = retval, !.at = "eles_open"]

\* fopen, the header line and its checks
t8_cmesh_triangle_read_nodes_open ==
  /\ reader.at = "nodes_open"
  /\ \/ ReaderStep(read_nodes_returns([reader EXCEPT !.node_fault = "open"], -1))
     \/ ReaderStep(read_nodes_returns(
                     [reader EXCEPT !.node_fault = "header missing"], -1))
     \/ \E k \in 0..4, n \in 0..MaxCorners, temp \in Dims :
          IF sscanf(k, 4) # 4 \/ temp # reader.dim
          THEN ReaderStep(read_nodes_returns(
                            [reader EXCEPT !.node_fault = "header malformed"], -1))
          ELSE ReaderStep([reader EXCEPT !.num_corners = n, !.cit = 0,
                                         !.at = "nodes_line"])

\* one iteration of the loop over the announced vertex lines; a line with
\* too few fields (retval # dim + 1) gets a message and is stored all the same
t8_cmesh_triangle_read_nodes_line ==
  /\ reader.at = "nodes_line"
  /\ reader.cit < reader.num_corners
  /\ \/ ReaderStep(read_nodes_returns(
                     [reader EXCEPT !.node_fault = "line missing"], -1))
     \/ \E k \in 0..(reader.dim + 1), number \in Bases, g \in Garbage :
          \E retval \in Scanned(reader.dim, k, 3) :
            LET corner == IF k >= 1 THEN number ELSE g
                r1 == [reader EXCEPT !.node_short = @ \/ k < reader.dim + 1,
                                     !.premature = @ \/ retval # reader.dim + 1]
                r2 == IF reader.cit = 0
                      THEN [r1 EXCEPT !.failed = Asserted(@, corner \in {0, 1}, 138),
                                      !.nodes_corner_offset = corner,
                                      !.nodes_corner_offset_set = TRUE,
                                      !.node_base = IF k >= 1 THEN number ELSE 0,
                                      !.node_base_known = k >= 1]
                      ELSE r1
            IN  ReaderStep([r2 EXCEPT !.cit = @ + 1])

\* the end of the loop: corner_offset is returned, written or not
t8_cmesh_triangle_read_nodes_done ==
  /\ reader.at = "nodes_line"
  /\ reader.cit >= reader.num_corners
  /\ \E g \in Garbage :
       ReaderStep(read_nodes_returns(
                    reader, IF reader.nodes_corner_offset_set
                            THEN reader.nodes_corner_offset ELSE g))

\* the element offset t8_cmesh_from_tetgen_or_triangle_file hands to
\* t8_cmesh_triangle_read_neigh
neigh_element_offset(corner_offset, triangle_offset) == corner_offset

\* the return of t8_cmesh_triangle_read_eles to its caller
read_eles_returns(r, retval) ==
  LET r1 == [r EXCEPT !.ele_ret = retval, !.done = @ \cup {"eles"}]
  IN  IF retval # 0 /\ retval # 1
      THEN reader_end([r1 EXCEPT !.cmesh = "null"])
      ELSE [r1 EXCEPT !.element_offset = neigh_element_offset(r.corner_offset, retval),
                      !.at = "neigh_open"]

\* fopen and the header line, whose missing fields only get a message
t8_cmesh_triangle_read_eles_open ==
  /\ reader.at = "eles_open"
  /\ \/ ReaderStep(read_eles_returns(reader, -1))
     \/ \E k \in 0..2, n \in 0..MaxReadElems, g \in Garbage :
          LET num_elems == IF k >= 1 THEN n ELSE g
          IN  ReaderStep([reader EXCEPT !.num_elems = num_elems, !.tit = 0,
                                        !.set_num_trees = Append(@, num_elems),
                                        !.at = "eles_line"])

\* one iteration of the loop over the announced elements; the elements of a
\* file are numbered consecutively from its first
t8_cmesh_triangle_read_eles_line ==
  /\ reader.at = "eles_line"
  /\ reader.tit < reader.num_elems
  /\ \/ ReaderStep(read_eles_returns(reader, -1))
     \/ \E k \in 0..(reader.dim + 2), number \in Bases :
          \E retval \in Scanned(reader.dim, k, 4) :
            LET base == IF reader.tit = 0 THEN number ELSE reader.ele_base
                triangle == base + reader.tit
                triangle_offset == IF reader.tit = 0 THEN triangle
                                   ELSE reader.triangle_offset
            IN  IF retval # reader.dim + 2
                THEN ReaderStep(read_eles_returns(reader, -1))
                ELSE ReaderStep(
                       [reader EXCEPT
                          !.ele_base = base,
                          !.triangle_offset = triangle_offset,
                          !.triangle_offset_set = TRUE,
                          !.failed = Asserted(Asserted(@, triangle \in {0, 1}
                                                            \/ reader.tit > 0, 249),
                                              triangle - triangle_offset = reader.tit,
                                              251),
                          !.set_tree_class = Append(@, triangle - triangle_offset),
                          !.tit = @ + 1])

\* the end of the loop: triangle_offset is returned, written or not
t8_cmesh_triangle_read_eles_done ==
  /\ reader.at = "eles_line"
  /\ reader.tit >= reader.num_elems
  /\ \E g \in Garbage :
       ReaderStep(read_eles_returns(
                    reader, IF reader.triangle_offset_set
                            THEN reader.triangle_offset ELSE g))

\* the face connections between two elements of a mesh with n elements,
\* given by the zero-based positions of the elements in the files
Joins(n, num_faces) ==
  { j \in [tree1 : 0..(n - 1), face1 : 0..(num_faces - 1),
           tree2 : 0..(n - 1), face2 : 0..(num_faces - 1)] : j.tree1 < j.tree2 }

\* the face connections a file set may describe: none or one
Adjacencies(n, num_faces) == {{}} \cup { {j} : j \in Joins(n, num_faces) }

\* the entry of the .neigh file for face f of the element at position t:
\* the number of the neighbour in the numbering of the file, or -1
NeighborEntry(adj, t, f, base) ==
  IF \E j \in adj : j.tree1 = t /\ j.face1 = f
  THEN (CHOOSE j \in adj : j.tree1 = t /\ j.face1 = f).tree2 + base
  ELSE IF \E j \in adj : j.tree2 = t /\ j.face2 = f
  THEN (CHOOSE j \in adj : j.tree2 = t /\ j.face2 = f).tree1 + base
  ELSE -1

\* the return of t8_cmesh_triangle_read_neigh to its caller
read_neigh_returns(r, retval) ==
  LET r1 == [r EXCEPT !.neigh_ret = retval, !.done = @ \cup {"neigh"}]
  IN  IF retval # 0
      THEN reader_end([r1 EXCEPT !.cmesh = "null"])
      ELSE reader_end(r1)

\* fopen and the header line; the .neigh file announces the elements the
\* .ele file held
t8_cmesh_triangle_read_neigh_open ==
  /\ reader.at = "neigh_open"
  /\ \/ ReaderStep(read_neigh_returns(reader, -1))
     \/ \E k \in 0..2 :
          \E adj \in Adjacencies(Len(reader.set_tree_class), reader.dim + 1) :
            IF sscanf(k, 2) # 2
            THEN ReaderStep(read_neigh_returns(reader, -1))
            ELSE ReaderStep([reader EXCEPT !.num_elems = Len(reader.set_tree_class),
                                           !.tit = 0, !.tneighbors = <<>>,
                                           !.adj = adj, !.at = "neigh_line"])

\* one iteration of the loop that reads the neighbours of an element into
\* tneighbors[num_faces * tit .. num_faces * tit + num_faces - 1]
t8_cmesh_triangle_read_neigh_line ==
  /\ reader.at = "neigh_line"
  /\ reader.tit < reader.num_elems
  /\ \/ ReaderStep(read_neigh_returns(reader, -1))
     \/ \E k \in 0..(reader.dim + 2) :
          \E retval \in Scanned(reader.dim, k, 4) :
            LET element == reader.ele_base + reader.tit
                row == [f \in 1..(reader.dim + 1) |->
                          NeighborEntry(reader.adj, reader.tit, f - 1, reader.ele_base)]
            IN  IF retval # reader.dim + 2
                THEN ReaderStep(read_neigh_returns(reader, -1))
                ELSE ReaderStep(
                       [reader EXCEPT
                          !.tneighbors = @ \o row,
                          !.failed = Asserted(@, element - reader.element_offset
                                                   = reader.tit, 355),
                          !.tit = @ + 1])

\* the file is read: fclose, and the attributes are sorted
t8_cmesh_triangle_read_neigh_sort ==
  /\ reader.at = "neigh_line"
  /\ reader.tit >= reader.num_elems
  /\ ReaderStep([reader EXCEPT !.tit = 0, !.face1 = 0, !.at = "neigh_join"])

\* the values face2 may have after the search for the face of element that
\* is connected to tit; the rows of an element beyond num_elems lie outside
\* tneighbors and hold anything
face2_found(r, element, num_faces) ==
  IF element < r.num_elems
  THEN LET hits == { f \in 0..2 : r.tneighbors[num_faces * element + f + 1]
                                    = r.tit + r.element_offset }
       IN  IF hits = {} THEN {3}
           ELSE { f \in hits : \A g \in hits : f <= g }
  ELSE 0..3

\* the orientation of a face connection: computed from the face numbers in
\* 2D, found from the vertex coordinates or never written in 3D
orientations(dim, face1, face2) ==
  IF dim = 2 THEN {(face1 + face2 + 1) % 2} ELSE (1..3) \cup Garbage

\* one iteration of the loop over the faces of the elements
t8_cmesh_triangle_read_neigh_face ==
  /\ reader.at = "neigh_join"
  /\ reader.tit < reader.num_elems
  /\ LET num_faces == reader.dim + 1
         element == reader.tneighbors[num_faces * reader.tit + reader.face1 + 1]
                      - reader.element_offset
         next == IF reader.face1 + 1 < num_faces
                 THEN [reader EXCEPT !.face1 = @ + 1]
                 ELSE [reader EXCEPT !.face1 = 0, !.tit = @ + 1]
     IN  IF element # -1 - reader.element_offset /\ reader.tit < element
         THEN \E face2 \in face2_found(reader, element, num_faces) :
                \E orientation \in orientations(reader.dim, reader.face1, face2) :
                  ReaderStep(
                    [next EXCEPT
                       !.failed = Asserted(@, face2 < num_faces, 379),
                       !.set_join = Append(@, [tree1 |-> reader.tit, tree2 |-> element,
                                               face1 |-> reader.face1, face2 |-> face2,
                                               orientation |-> orientation])])
         ELSE ReaderStep(next)

\* the end of the loop over the elements
t8_cmesh_triangle_read_neigh_done ==
  /\ reader.at = "neigh_join"
  /\ reader.tit >= reader.num_elems
  /\ ReaderStep(read_neigh_returns(reader, 0))

InitReader ==
  /\ forest_from = PendingForest
  /\ forest = PendingForest
  /\ forest_orig = forest_from
  /\ set_adapt_fn = "zero"
  /\ set_adapt_recursive = FALSE
  /\ set_replace_fn = FALSE
  /\ pc = "idle"
  /\ tt = 0
  /\ el_considered = 0 /\ el_inserted = 0 /\ el_coarsen = 0 /\ el_offset = 0
  /\ refine = 0
  /\ refine_list = <<>>
  /\ pos = 0 /\ isfamily = 0
  /\ failed = 0
  /\ calls = <<>>
  /\ utag = <<>>
  /\ origin = <<>>
  /\ answers = <<>>
  /\ adapts = <<>>
  /\ life = t8_forest_init(FALSE, FALSE)
  /\ \E dim \in Dims : reader = ReaderStart(dim)

NextReader ==
  \/ t8_cmesh_triangle_read_nodes_open
  \/ t8_cmesh_triangle_read_nodes_line
  \/ t8_cmesh_triangle_read_nodes_done
  \/ t8_cmesh_triangle_read_eles_open
  \/ t8_cmesh_triangle_read_eles_line
  \/ t8_cmesh_triangle_read_eles_done
  \/ t8_cmesh_triangle_read_neigh_open
  \/ t8_cmesh_triangle_read_neigh_line
  \/ t8_cmesh_triangle_read_neigh_sort
  \/ t8_cmesh_triangle_read_neigh_face
  \/ t8_cmesh_triangle_read_neigh_done

SpecReader == InitReader /\ [][NextReader]_vars

(***************************************************************************)
(* The adapt of one tree as a function of the tree's class, its source     *)
(* sequence, the return values of the predicate in call order and the      *)
(* recursive flag.  st is the target built so far, the return values not   *)
(* yet used, and whether a value was there for every call.                 *)
(***************************************************************************)
RECURSIVE refine_recursive_of(_, _, _)
\* t8_forest_adapt_refine_recursive on the given list
refine_recursive_of(ec, list, st) ==
  IF list = <<>> \/ ~st.ok THEN st
  ELSE IF st.ans = <<>> THEN [st EXCEPT !.ok = FALSE]
  ELSE IF Head(st.ans) > 0
    THEN refine_recursive_of(ec,
           prepend_children(Tail(list), t8_element_children(ec, Head(list))),
           [st EXCEPT !.ans = Tail(@)])
  ELSE refine_recursive_of(ec, Tail(list),
         [st EXCEPT !.ans = Tail(@), !.elems = Append(@, Head(list))])

RECURSIVE coarsen_recursive_of(_, _, _, _, _)
\* t8_forest_adapt_coarsen_recursive with el_inserted = Len(st.elems)
coarsen_recursive_of(ec, coarsen, p, isfam, st) ==
  IF ~st.ok \/ ~coarsen_continues(ec, st.elems, Len(st.elems), coarsen, p, isfam)
  THEN st
  ELSE LET fam == coarsen_window(ec, st.elems, p)
       IN  IF ~child_ids_in_order(ec, fam) THEN st
           ELSE IF st.ans = <<>> THEN [st EXCEPT !.ok = FALSE]
           ELSE IF Head(st.ans) < 0
             THEN coarsen_recursive_of(ec, coarsen,
                    p - (t8_element_num_children(ec) - 1), 1,
                    [st EXCEPT !.ans = Tail(@),
                               !.elems = Append(SubSeq(st.elems, 1, p),
                                                t8_element_parent(ec, fam[1]))])
           ELSE [st EXCEPT !.ans = Tail(@)]

RECURSIVE adapt_tree_from(_, _, _, _, _, _)
\* the main loop from the cursor considered on
adapt_tree_from(ec, from, recursive, considered, coarsen, st) ==
  IF ~st.ok \/ considered >= Len(from) THEN st
  ELSE IF st.ans = <<>> THEN [st EXCEPT !.ok = FALSE]
  ELSE
    LET K == t8_element_num_children(ec)
        first == from[considered + 1]
        r == Head(st.ans)
        st1 == [st EXCEPT !.ans = Tail(@)]
        elem == IF r < 0 THEN t8_element_parent(ec, first) ELSE first
        st2 == [st1 EXCEPT !.elems = Append(@, elem)]
    IN  IF r > 0 /\ recursive
          THEN adapt_tree_from(ec, from, recursive, considered + consumed(r, K),
                 Len(st.elems) + K,
                 refine_recursive_of(ec,
                   prepend_children(<<>>, t8_element_children(ec, first)), st1))
        ELSE IF r > 0
          THEN adapt_tree_from(ec, from, recursive, considered + consumed(r, K),
                 coarsen,
                 [st1 EXCEPT !.elems = @ \o t8_element_children(ec, first)])
        ELSE adapt_tree_from(ec, from, recursive, considered + consumed(r, K),
               coarsen,
               IF calls_coarsen_recursive(recursive, ec, elem)
               THEN coarsen_recursive_of(ec, coarsen, Len(st2.elems) - K, 1, st2)
               ELSE st2)

\* the body of the tree loop of t8_forest_adapt for one tree
adapt_tree(ec, from, ans, recursive) ==
  adapt_tree_from(ec, from, recursive, 0, 0,
                  [elems |-> <<>>, ans |-> ans, ok |-> TRUE])

(***************************************************************************)
(* Properties.                                                             *)
(***************************************************************************)
\* strictly increasing under compare: no two equal elements, no inversion
StrictlySorted(ec, elems) ==
  \A i, j \in DOMAIN elems :
    i < j => t8_element_compare(ec, elems[i], elems[j]) = -1

\* a is b or an ancestor of b
Covers(ec, a, b) ==
  LET h == t8_element_len(ec, a.level)
  IN  /\ a.level <= b.level
      /\ b.x - (b.x % h) = a.x
      /\ b.y - (b.y % h) = a.y

RECURSIVE SumVolume(_, _)
SumVolume(ec, elems) ==
  IF elems = <<>> THEN 0
  ELSE t8_element_volume(ec, elems[1]) + SumVolume(ec, Tail(elems))

\* every region of the root is covered by exactly one element
TilesRoot(ec, elems) ==
  /\ \A i, j \in DOMAIN elems : i # j => ~Covers(ec, elems[i], elems[j])
  /\ SumVolume(ec, elems) = t8_element_volume(ec, t8_element_root(ec))

ValidTree(t) ==
  /\ StrictlySorted(t.eclass, t.elements)
  /\ TilesRoot(t.eclass, t.elements)

SourceValid == \A t \in DOMAIN forest_from.trees : ValidTree(forest_from.trees[t])

\* the trees of the target whose adapt has finished
FinishedTrees == 1..tt

\* C1: for every valid source tree, contract-obeying predicate and both
\* values of the recursive flag, the target element sequence of every tree
\* is strictly increasing under compare, at the end of adapt and at every
\* step on the way.
C1_TargetStrictlySorted ==
  SourceValid =>
    \A t \in DOMAIN forest.trees :
      StrictlySorted(forest.trees[t].eclass, forest.trees[t].elements)

\* an adapt in recursive mode has finished whose last tree has kept,
\* refined and coarsened elements
C1_Witness ==
  /\ pc = "done"
  /\ set_adapt_fn = "any"
  /\ set_adapt_recursive
  /\ {"keep", "refine", "coarsen"} \subseteq Range(origin)

\* C2: if the leaves of every source tree tile the root, the leaves of
\* every finished target tree tile the root: no gap, no overlap, no
\* ancestor/descendant pair.
C2_TargetTilesRoot ==
  SourceValid =>
    \A t \in FinishedTrees :
      TilesRoot(forest.trees[t].eclass, forest.trees[t].elements)

\* a non-recursive adapt has finished that refined and coarsened in its
\* last tree
C2_Witness ==
  /\ pc = "done"
  /\ set_adapt_fn = "any"
  /\ ~set_adapt_recursive
  /\ {"refine", "coarsen"} \subseteq Range(origin)
  /\ TilesRoot(forest.trees[tt].eclass, forest.trees[tt].elements)

\* C3: with a predicate that returns 0 on every call, every finished target
\* tree has the length and the elements of its source tree, for both values
\* of the recursive flag.
C3_ZeroPredicateIsIdentity ==
  set_adapt_fn = "zero" =>
    \A t \in FinishedTrees :
      /\ Len(forest.trees[t].elements) = Len(forest_from.trees[t].elements)
      /\ forest.trees[t].elements = forest_from.trees[t].elements

\* a recursive adapt with the zero predicate has finished on a forest with
\* a tree of at least four elements, one of them closing a family
C3_Witness ==
  /\ pc = "done"
  /\ set_adapt_fn = "zero"
  /\ set_adapt_recursive
  /\ \E t \in DOMAIN forest.trees :
       /\ Len(forest.trees[t].elements) >= 4
       /\ forest.trees[t].elements = forest_from.trees[t].elements

\* a predicate that always answers +1 obeys its contract only on trees
\* without an element at the maximum level
AllBelowMaxLevel(f) ==
  \A t \in DOMAIN f.trees : \A i \in DOMAIN f.trees[t].elements :
    f.trees[t].elements[i].level < t8_element_maxlevel(f.trees[t].eclass)

RefineAllThenCoarsenAll ==
  /\ Len(adapts) = 2
  /\ adapts[1] = [fn |-> "refine_all", recursive |-> FALSE]
  /\ adapts[2] = [fn |-> "coarsen_all", recursive |-> FALSE]
  /\ AllBelowMaxLevel(forest_orig)

\* C4: a non-recursive adapt whose predicate answers +1 on every element,
\* followed by a non-recursive adapt whose predicate answers -1 on every
\* family window and 0 otherwise, yields in every tree the original
\* sequence.
C4_RefineThenCoarsenCancels ==
  RefineAllThenCoarsenAll =>
    \A t \in FinishedTrees :
      forest.trees[t].elements = forest_orig.trees[t].elements

\* both adapts have finished on a forest that had a tree with elements of
\* different levels
C4_Witness ==
  /\ pc = "done"
  /\ RefineAllThenCoarsenAll
  /\ \E t \in DOMAIN forest.trees :
       /\ forest.trees[t].elements = forest_orig.trees[t].elements
       /\ Len(forest_from.trees[t].elements) > Len(forest.trees[t].elements)
       /\ \E i, j \in DOMAIN forest.trees[t].elements :
            forest.trees[t].elements[i].level # forest.trees[t].elements[j].level

\* C5: in recursive mode no family all of whose members were produced by
\* refinement in the current adapt call is replaced by its parent (such a
\* replacement would leave the mark "recoarsen").
C5_RefinedFamilyNeverCoarsened ==
  set_adapt_recursive => \A i \in DOMAIN origin : origin[i] # "recoarsen"

\* a recursive adapt with an unrestricted predicate has finished a tree in
\* which a family produced by refinement is followed by a parent produced
\* by coarsening
C5_Witness ==
  /\ pc = "done"
  /\ set_adapt_fn = "any"
  /\ set_adapt_recursive
  /\ LET elems == forest.trees[tt].elements
         K == t8_element_num_children(forest.trees[tt].eclass)
     IN  \E p \in 0..(Len(elems) - K) :
           /\ t8_element_is_family(forest.trees[tt].eclass,
                                   SubSeq(elems, p + 1, p + K))
           /\ \A i \in 1..K : origin[p + i] = "refine"
           /\ \E j \in (p + K + 1)..Len(elems) : origin[j] = "coarsen"

\* no element occurs twice
NoDuplicates(elems) ==
  \A i, j \in DOMAIN elems : i # j => elems[i] # elems[j]

LevelsInRange ==
  /\ \A t \in DOMAIN forest.trees : \A i \in DOMAIN forest.trees[t].elements :
       forest.trees[t].elements[i].level
         <= t8_element_maxlevel(forest.trees[t].eclass)
  /\ pc = "refine" =>
       \A i \in DOMAIN refine_list :
         refine_list[i].level <= t8_element_maxlevel(eclass)

\* C6: in recursive mode, with a predicate that answers <= 0 at the
\* maximum level, the recursive refinement loop, once entered, ends with an
\* empty list; every element committed to the target has a level <= the
\* maximum level and no element is committed twice.
C6_RecursiveRefinementTerminates ==
  /\ [](set_adapt_recursive =>
          /\ LevelsInRange
          /\ \A t \in DOMAIN forest.trees : NoDuplicates(forest.trees[t].elements))
  /\ (pc = "refine") ~> (pc = "main" /\ refine_list = <<>>)

\* the refinement loop has returned after it reached the maximum level and
\* committed elements of two levels
C6_Witness ==
  /\ pc = "main"
  /\ set_adapt_recursive
  /\ el_considered > 0
  /\ refine_list = <<>>
  /\ refine > 0
  /\ \E i, j \in DOMAIN origin :
       /\ origin[i] = "refine" /\ origin[j] = "refine"
       /\ telements[i].level = t8_element_maxlevel(eclass)
       /\ telements[j].level < telements[i].level
       /\ telements[j].level > 1

\* C7: every invocation of the predicate, in the main loop and in the two
\* recursive loops, passes n = 1 or n = num_children elements, and
\* n = num_children only with elements that form a family.
C7_PredicateWindows ==
  \A i \in DOMAIN calls :
    calls[i].op = "adapt" =>
      /\ calls[i].n \in {1, num_children}
      /\ Len(calls[i].elems) = calls[i].n
      /\ calls[i].n = num_children =>
           t8_element_is_family(eclass, calls[i].elems)

\* the recursive coarsening loop has asked the predicate about a family of
\* four quads, after the main loop asked about single elements
C7_Witness ==
  /\ pc = "coarsen"
  /\ el_considered > 0
  /\ \E i \in DOMAIN calls :
       /\ calls[i].op = "adapt"
       /\ calls[i].loop = "coarsen"
       /\ calls[i].n = 4
       /\ t8_element_is_family(eclass, calls[i].elems)

\* the replace invocations of the last step
ReplaceCallsOf(cs) == { i \in DOMAIN cs : cs[i].op = "replace" }

\* the replace callback was invoked exactly once, with these arguments
ReplacedOnce(cs, old, new) ==
  /\ Cardinality(ReplaceCallsOf(cs)) = 1
  /\ \A i \in ReplaceCallsOf(cs) :
       /\ cs[i].n = Len(old) /\ cs[i].elems = old
       /\ cs[i].nnew = Len(new) /\ cs[i].new = new

\* the source element of tree t that is e or an ancestor of e
SourceOver(t, e) ==
  CHOOSE s \in Range(forest_from.trees[t].elements) :
    Covers(forest_from.trees[t].eclass, s, e)

\* the first source element of tree t that is e or a descendant of e
FirstSourceUnder(t, e) ==
  LET from == forest_from.trees[t].elements
      first == CHOOSE i \in DOMAIN from :
                 /\ Covers(forest_from.trees[t].eclass, e, from[i])
                 /\ \A j \in 1..(i - 1) :
                      ~Covers(forest_from.trees[t].eclass, e, from[j])
  IN  from[first]

\* C8: with a replace callback set, every refinement of an element e
\* invokes it exactly once with old = (1, [e]) and new = (num_children,
\* children(e)), every coarsening of a family, in the main loop and in the
\* coarsen loop, exactly once with old = (num_children, the family) and
\* new = (1, [parent]), and no other step invokes it; with a callback that
\* copies the tag of old[0], after refine-all every target element carries
\* its source's tag and after coarsen-all the tag of the first member of
\* its family.
C8_ReplaceArguments ==
  set_replace_fn =>
    /\ \A i \in DOMAIN calls :
         calls[i].op = "adapt" =>
           IF calls[i].ret > 0 /\ calls[i].loop \in {"main", "refine"}
           THEN ReplacedOnce(calls, <<calls[i].elems[1]>>,
                             t8_element_children(eclass, calls[i].elems[1]))
           ELSE IF calls[i].ret < 0
           THEN /\ t8_element_is_family(eclass, calls[i].elems)
                /\ ReplacedOnce(calls, calls[i].elems,
                                <<t8_element_parent(eclass, calls[i].elems[1])>>)
           ELSE ReplaceCallsOf(calls) = {}
    /\ \A t \in FinishedTrees : \A i \in DOMAIN forest.trees[t].elements :
         LET e == forest.trees[t].elements[i]
             src == SourceTags(forest_from.trees[t])
         IN  /\ set_adapt_fn = "refine_all" =>
                  TagOf(utag[t], e) = src[SourceOver(t, e)]
             /\ set_adapt_fn = "coarsen_all" =>
                  TagOf(utag[t], e) = src[FirstSourceUnder(t, e)]

\* a recursive coarsen-all with a replace callback has finished and turned
\* a tree of at least three elements into fewer elements, the first of
\* which carries the tag of the first source element
C8_Witness ==
  /\ pc = "done"
  /\ set_replace_fn
  /\ set_adapt_fn = "coarsen_all"
  /\ set_adapt_recursive
  /\ \E t \in DOMAIN forest.trees :
       /\ Len(forest_from.trees[t].elements) >= 3
       /\ Len(forest.trees[t].elements) < Len(forest_from.trees[t].elements)
       /\ forest.trees[t].elements[1] # forest_from.trees[t].elements[1]
       /\ TagOf(utag[t], forest.trees[t].elements[1])
            = forest_from.trees[t].elements_offset + 1

\* the pushes of the last step, and the replace invocations after push i
PushesOf(cs) == { i \in DOMAIN cs : cs[i].op = "push" }
ReplacesAfter(cs, i) == { j \in ReplaceCallsOf(cs) : j > i }

\* the predicate call that opened the last step (every step that pushes
\* starts with one, and the next call opens a later step)
StepCall(cs) == cs[1]

\* the source elements a step of the main loop consumed
ConsumedWindow(cs) ==
  SubSeq(StepCall(cs).elems, 1, consumed(StepCall(cs).ret, num_children))

\* C9 as stated: between every push into the target and the next predicate
\* call the replace callback is invoked with old = the consumed window and
\* new = the elements just pushed.
C9_ReplaceAfterEveryPush ==
  set_replace_fn =>
    \A i \in PushesOf(calls) :
      \E j \in ReplacesAfter(calls, i) :
        /\ calls[j].new = calls[i].elems
        /\ calls[j].elems = ConsumedWindow(calls)

\* C9 amended: between a push of a refine or coarsen step of the main loop
\* and the next predicate call the replace callback is invoked with old =
\* the consumed source elements and new = the elements just pushed; an
\* element pushed unchanged (keep step, commit of the recursive refinement
\* loop) is not followed by an invocation.
C9_ReplaceAfterChangingPush ==
  set_replace_fn =>
    \A i \in PushesOf(calls) :
      IF StepCall(calls).loop = "main" /\ StepCall(calls).ret # 0
      THEN /\ Cardinality(ReplacesAfter(calls, i)) = 1
           /\ \A j \in ReplacesAfter(calls, i) :
                /\ calls[j].new = calls[i].elems
                /\ calls[j].elems = ConsumedWindow(calls)
      ELSE ReplaceCallsOf(calls) = {}

\* a coarsen step of the main loop has pushed a parent and then invoked the
\* replace callback with the family and that parent
C9_Witness ==
  /\ set_replace_fn
  /\ \E i \in PushesOf(calls) :
       /\ StepCall(calls).loop = "main"
       /\ StepCall(calls).ret < 0
       /\ \E j \in ReplacesAfter(calls, i) :
            /\ calls[j].n = num_children
            /\ calls[j].new = calls[i].elems

\* the number of elements of the trees before tree t
ElementsBefore(trees, t) == SumLen(SubSeq(trees, 1, t - 1))

\* C10: the elements_offset of every finished target tree is the sum of
\* the lengths of the target trees before it (0 for the first tree, never
\* decreasing), and local_num_elements is the sum of the lengths of the
\* finished trees, hence of all target trees when adapt has ended.
C10_OffsetsArePrefixSums ==
  pc \notin {"start", "abort"} =>
    /\ \A t \in FinishedTrees :
         /\ forest.trees[t].elements_offset = ElementsBefore(forest.trees, t)
         /\ t > 1 => forest.trees[t].elements_offset
                       >= forest.trees[t - 1].elements_offset
    /\ forest.local_num_elements = ElementsBefore(forest.trees, tt + 1)
    /\ pc = "done" => /\ tt = Len(forest.trees)
                      /\ forest.local_num_elements = SumLen(forest.trees)

\* adapt has ended on a forest whose first tree changed its length
C10_Witness ==
  /\ pc = "done"
  /\ Len(forest.trees) >= 2
  /\ Len(forest.trees[1].elements) # Len(forest_from.trees[1].elements)
  /\ forest.trees[2].elements_offset = Len(forest.trees[1].elements)
  /\ forest.local_num_elements # forest_from.local_num_elements

\* the number of elements of the current target tree that carry mark m
CountMarks(m) == Cardinality({ i \in DOMAIN origin : origin[i] = m })

\* the tree whose adapt has just finished, if any
JustFinished == pc \in {"tree", "finish", "done"} /\ tt >= 1

\* C11: in non-recursive mode the length of a finished target tree is the
\* length of its source tree plus (num_children - 1) for every predicate
\* call answered +1 (each leaves num_children elements marked "refine")
\* minus (num_children - 1) for every call answered -1 (each leaves one
\* element marked "coarsen").
C11_TargetLength ==
  (~set_adapt_recursive /\ JustFinished) =>
    LET K == t8_element_num_children(forest.trees[tt].eclass)
        plus == CountMarks("refine") \div K
        minus == CountMarks("coarsen")
    IN  /\ CountMarks("refine") % K = 0
        /\ Len(forest.trees[tt].elements)
             = Len(forest_from.trees[tt].elements)
                 + (K - 1) * plus - (K - 1) * minus

\* a non-recursive adapt has finished a tree with more refinements than
\* coarsenings, at least one of each
C11_Witness ==
  /\ ~set_adapt_recursive
  /\ JustFinished
  /\ CountMarks("coarsen") >= 1
  /\ CountMarks("refine") >= 2 * t8_element_num_children(forest.trees[tt].eclass)
  /\ Len(forest.trees[tt].elements) > Len(forest_from.trees[tt].elements)

\* the target of the tree just finished, computed from that tree alone
OwnResult ==
  adapt_tree(forest.trees[tt].eclass, forest_from.trees[tt].elements,
             answers, set_adapt_recursive)

\* C12: the target sequence of a tree is the function adapt_tree of the
\* tree's own class and source sequence, the predicate's answers for that
\* tree and the recursive flag, whatever the other source trees hold, and
\* no step changes the target sequence of a tree other than the current one.
C12_TreesIndependent ==
  /\ []((JustFinished /\ pc # "abort") =>
          /\ OwnResult.ok /\ OwnResult.ans = <<>>
          /\ OwnResult.elems = forest.trees[tt].elements)
  /\ [][\A t \in DOMAIN forest.trees :
          t # tt + 1 => forest.trees[t].elements = forest'.trees[t].elements]_vars

\* a recursive adapt has finished its second tree, which was refined and
\* coarsened and followed a first tree with another source sequence
C12_Witness ==
  /\ pc = "done"
  /\ tt >= 2
  /\ set_adapt_recursive
  /\ forest_from.trees[1].elements # forest_from.trees[2].elements
  /\ Len(forest.trees[1].elements) # Len(forest_from.trees[1].elements)
  /\ OwnResult.elems = forest.trees[tt].elements
  /\ {"refine", "coarsen"} \subseteq Range(origin)
  /\ Len(answers) >= 3

\* the positions inside t8_forest_adapt
AdaptRunning == pc \in {"start", "tree", "main", "refine", "coarsen", "finish"}

\* a source is configured, the scheme is set, an adapt source is committed
ValidForCommit ==
  /\ life.cmesh \/ life.set_from
  /\ life.scheme
  /\ life.from_method = "T8_FOREST_FROM_ADAPT" => forest_from.committed

t8_basic_configured ==
  /\ life.cmesh /\ life.scheme /\ life.level >= 0
  /\ ~life.set_from

Refinable(ec) == { e \in Elements(ec) : e.level < t8_element_maxlevel(ec) }

ChildIds(ec) == 0..(t8_element_num_children(ec) - 1)

Swapped(fam, i, j) ==
  [k \in DOMAIN fam |-> IF k = i THEN fam[j] ELSE IF k = j THEN fam[i] ELSE fam[k]]

\* the children of e are a family and no exchange of two of them is one
FamilyInOrderOnly(ec, e) ==
  LET ch == t8_element_children(ec, e)
  IN  /\ t8_element_is_family(ec, ch)
      /\ \A i, j \in DOMAIN ch :
           i # j => ~t8_element_is_family(ec, Swapped(ch, i, j))

\* the adapt callback has just been handed a family
FamilyHandedOver ==
  /\ calls # <<>>
  /\ calls[1].op = "adapt"
  /\ calls[1].n = num_children

Sign(n) == IF n < 0 THEN -1 ELSE IF n > 0 THEN 1 ELSE 0

\* the elements of a tuple compare as their positions do
ComparesAsPositions(ec, ch) ==
  \A i, j \in DOMAIN ch : t8_element_compare(ec, ch[i], ch[j]) = Sign(i - j)

\* the positions in calls of the pushes of all children of an element
ChildrenPushes == { k \in DOMAIN calls : calls[k].op = "push" /\ calls[k].n = num_children }

NodesReturned == reader.at # "idle" /\ "nodes" \in reader.done

\* the .node file could not be opened, had no or a malformed header line,
\* or an announced vertex line was missing or had too few fields
NodesFaulty == reader.node_fault # "none" \/ reader.node_short

\* C18: t8_cmesh_triangle_read_nodes returns -1 whenever the .node file
\* cannot be opened, its header line is missing or malformed, or an
\* announced vertex line is missing or has fewer than the required number
\* of fields; it returns the index of the first node (0 or 1) only when
\* every announced vertex line was parsed completely.
C18_ReadNodesReportsFailure ==
  NodesReturned =>
    /\ NodesFaulty => reader.node_ret = -1
    /\ reader.node_ret \in {0, 1} => ~NodesFaulty

\* a vertex line after the first had too few fields, the message was
\* printed, and the function returned the index of the first node
C18_Witness ==
  /\ NodesReturned
  /\ reader.node_fault = "none"
  /\ reader.node_short /\ reader.premature
  /\ reader.node_base_known
  /\ reader.node_ret = reader.node_base
  /\ reader.at = "eles_open"

\* C19: the tree ids the reader passes to set_tree_class and set_join are
\* zero-based, the position of the element in the files, whether the
\* elements are numbered from 0 or from 1 and whether or not the nodes are
\* numbered from the same index.
C19_TreeIdsZeroBased ==
  reader.at # "idle" =>
    /\ \A i \in DOMAIN reader.set_tree_class : reader.set_tree_class[i] = i - 1
    /\ \A c \in DOMAIN reader.set_join :
         \E j \in reader.adj :
           /\ reader.set_join[c].tree1 = j.tree1
           /\ reader.set_join[c].tree2 = j.tree2

\* all three files were read without a fault, the nodes numbered from 0 and
\* the elements from 1, and the connection between the first and the second
\* element was passed to set_join with a tree id that is no tree
C19_Witness ==
  /\ reader.at = "end"
  /\ reader.cmesh = "committed"
  /\ ~NodesFaulty /\ reader.node_base_known
  /\ reader.node_base = 0 /\ reader.ele_base = 1
  /\ reader.set_tree_class = <<0, 1>>
  /\ reader.adj # {}
  /\ \E c \in DOMAIN reader.set_join : reader.set_join[c].tree2 = 2

(***************************************************************************)
(* el_coarsen after a refine step of the main loop in recursive mode       *)
(***************************************************************************)
\* a refine step of the main loop, with all its nested refinement, has just
\* completed: the loop is back at its head with the cursor advanced
RefineStepCompleted ==
  /\ set_adapt_recursive
  /\ pc = "main"
  /\ refine > 0
  /\ el_considered > 0

\* d is a proper descendant of a
Descends(ec, a, d) == Covers(ec, a, d) /\ d.level > a.level

\* C20 as stated: in recursive mode, when a refine step of the main loop has
\* completed, el_coarsen equals el_inserted, the number of elements then in
\* the target.
C20_FloorEqualsInserted ==
  RefineStepCompleted => el_coarsen = el_inserted

\* C20: in recursive mode, when a refine step of the main loop has
\* completed, el_coarsen is the number of elements the target held before
\* the step plus num_children: the elements from el_coarsen - num_children
\* on are the descendants of the refined source element and the one before
\* is not.  It is at most el_inserted, and equal to it exactly when none of
\* the children was refined further.
C20_FloorIsBeforePlusChildren ==
  RefineStepCompleted =>
    LET e == telements_from[el_considered]
        before == el_coarsen - num_children
        produced == (before + 1)..el_inserted
    IN  /\ before >= 0
        /\ el_coarsen <= el_inserted
        /\ \A i \in produced :
             Descends(eclass, e, telements[i]) /\ origin[i] = "refine"
        /\ before >= 1 => ~Descends(eclass, e, telements[before])
        /\ el_coarsen = el_inserted
             <=> \A i \in produced : telements[i].level = e.level + 1

\* a refine step has completed in which a child was refined further, after
\* other elements had been inserted: el_coarsen lies between the number of
\* elements before the step and el_inserted
C20_Witness ==
  /\ RefineStepCompleted
  /\ el_coarsen - num_children >= 1
  /\ el_coarsen < el_inserted
  /\ \E i \in (el_coarsen + 1)..el_inserted :
       telements[i].level >= telements_from[el_considered].level + 2

(***************************************************************************)
(* Recursive coarsening is exhaustive                                      *)
(***************************************************************************)
\* the target tree that was finished last, and its class
FinishedElements == forest.trees[tt].elements
FinishedClass == forest.trees[tt].eclass

\* the positions p such that the K elements after p of the tree finished
\* last are a family
FamiliesAt ==
  { p \in 0..(Len(FinishedElements) - t8_element_num_children(FinishedClass)) :
      t8_element_is_family(FinishedClass,
        SubSeq(FinishedElements, p + 1, p + t8_element_num_children(FinishedClass))) }

\* the predicate answers -1 on the family after position p
WouldCoarsen(p) ==
  LET K == t8_element_num_children(FinishedClass)
  IN  -1 \in adapt_fn(set_adapt_fn, FinishedClass, K,
                      SubSeq(FinishedElements, p + 1, p + K), TRUE)

\* all elements of a sequence have the same level
Uniform(elems) == \A i, j \in DOMAIN elems : elems[i].level = elems[j].level

\* C21: in recursive mode, when the adapt of a tree has finished with a
\* predicate that is a function of its window, the target holds no family
\* on which the predicate answers -1 but families all of whose members
\* were produced by refinement in this call; a predicate that coarsens every
\* family turns a uniform tree into the root element.
C21_CoarseningExhaustive ==
  (set_adapt_recursive /\ set_adapt_fn \in PureKinds /\ JustFinished) =>
    /\ \A p \in FamiliesAt :
         WouldCoarsen(p) =>
           \A i \in 1..t8_element_num_children(FinishedClass) :
             origin[p + i] = "refine"
    /\ (set_adapt_fn = "coarsen_all" /\ Uniform(forest_from.trees[tt].elements))
         => FinishedElements = <<t8_element_root(FinishedClass)>>

\* a recursive adapt that coarsens every family has finished: a line tree of
\* four leaves of different levels, whose coarsening needs two rounds of the
\* coarsening loop, has become the root, and so has the tree finished last
C21_Witness ==
  /\ set_adapt_recursive /\ set_adapt_fn = "coarsen_all"
  /\ pc = "done" /\ tt = 2
  /\ \E t \in 1..2 :
       /\ Len(forest_from.trees[t].elements) = 4
       /\ forest_from.trees[t].eclass = "line"
       /\ ~Uniform(forest_from.trees[t].elements)
       /\ forest.trees[t].elements = <<t8_element_root("line")>>
  /\ FinishedElements = <<t8_element_root(FinishedClass)>>
  /\ origin = <<"coarsen">>

\* a recursive adapt that refines single elements and coarsens families has
\* finished a tree that holds families it would coarsen, all produced by
\* refinement
C21_WitnessRefined ==
  /\ set_adapt_recursive /\ set_adapt_fn = "flip"
  /\ JustFinished
  /\ \E p \in FamiliesAt : WouldCoarsen(p)

(***************************************************************************)
(* A non-recursive adapt changes levels by at most one                     *)
(***************************************************************************)
\* x is a source element, a child of one, or the parent of a family of
\* consecutive source elements
OneLevelFrom(ec, from, x) ==
  \/ x \in Range(from)
  \/ \E s \in Range(from) :
       /\ s.level < t8_element_maxlevel(ec)
       /\ x \in Range(t8_element_children(ec, s))
  \/ \E p \in 0..(Len(from) - t8_element_num_children(ec)) :
       LET fam == SubSeq(from, p + 1, p + t8_element_num_children(ec))
       IN  t8_element_is_family(ec, fam) /\ x = t8_element_parent(ec, fam[1])

\* the uniform tree of a level
UniformTree(ec, l) == UniformLeaves(ec, t8_element_root(ec), l)

\* C22: in non-recursive mode every target element is a source element, a
\* child of a source element or the parent of num_children consecutive
\* source elements, so its level differs by at most one from the level of
\* the source leaves it covers or lies in; a predicate that coarsens every
\* family turns the uniform tree of level L >= 1 into the uniform tree of
\* level L - 1, in the first call and in the call after it.
C22_OneLevelPerCall ==
  (~set_adapt_recursive /\ JustFinished) =>
    LET from == forest_from.trees[tt].elements
    IN  /\ \A k \in DOMAIN FinishedElements :
             /\ OneLevelFrom(FinishedClass, from, FinishedElements[k])
             /\ \A s \in Range(from) :
                  (Covers(FinishedClass, s, FinishedElements[k])
                     \/ Covers(FinishedClass, FinishedElements[k], s))
                  => /\ FinishedElements[k].level - s.level <= 1
                     /\ s.level - FinishedElements[k].level <= 1
        /\ (set_adapt_fn = "coarsen_all" /\ Uniform(from) /\ from[1].level >= 1)
             => FinishedElements = UniformTree(FinishedClass, from[1].level - 1)

\* two non-recursive calls that coarsen every family have turned the uniform
\* line tree of level 2 into two elements of level 1 and these into the root
C22_Witness ==
  /\ pc = "done"
  /\ Len(adapts) = 2
  /\ \A i \in 1..2 : adapts[i].fn = "coarsen_all" /\ ~adapts[i].recursive
  /\ \E t \in DOMAIN forest.trees :
       /\ forest.trees[t].eclass = "line"
       /\ forest_orig.trees[t].elements = UniformTree("line", 2)
       /\ forest_from.trees[t].elements = UniformTree("line", 1)
       /\ forest.trees[t].elements = UniformTree("line", 0)

(***************************************************************************)
(* The recursive refinement loop works depth first                         *)
(***************************************************************************)
\* the last step asked the predicate about an element and got this answer
Presented == IF calls # <<>> /\ calls[1].op = "adapt" THEN calls[1].elems[1]
             ELSE t8_element_root(eclass)
WasRefined == calls # <<>> /\ calls[1].op = "adapt" /\ calls[1].ret > 0
WasCommitted ==
  calls # <<>> /\ calls[1].op = "adapt" /\ calls[1].loop = "refine"
    /\ calls[1].ret <= 0

\* one iteration of the loop of t8_forest_adapt_refine_recursive: the
\* element presented to the predicate in it is the head of the list
RefineIteration ==
  LET b == calls'[1].elems[1]
      ch == t8_element_children(eclass, b)
  IN  /\ calls'[1].op = "adapt" /\ calls'[1].loop = "refine" /\ calls'[1].n = 1
      /\ b = Head(refine_list)
      /\ WasRefined => b = t8_element_child(eclass, Presented, 0)
      /\ WasCommitted =>
           /\ t8_element_compare(eclass, Presented, b) = -1
           /\ b.level <= Presented.level
           /\ t8_element_linear_id(eclass, b)
                = t8_element_linear_id(eclass, Presented)
                    + t8_element_volume(eclass, Presented)
      /\ IF calls'[1].ret > 0
         THEN /\ refine_list' = ch \o Tail(refine_list)
              /\ telements' = telements
         ELSE /\ refine_list' = Tail(refine_list)
              /\ telements' = Append(telements, b)

\* C23: the list of the recursive refinement loop is served last in first
\* out, with the children put on it last child first: right after an element
\* was refined the predicate is asked about its child 0, after an element
\* was committed about the next element in depth-first pre-order, and the
\* target followed by the list is in SFC order at every moment, so that the
\* elements are committed to the target in SFC order.
C23_DepthFirstRefinement ==
  /\ [](pc = "refine" => StrictlySorted(eclass, telements \o refine_list))
  /\ [][(pc = "refine" /\ refine_list # <<>>) => RefineIteration]_vars

\* the loop has refined a child of the refined source element of a quad
\* tree: the four grandchildren are at the head of the list, before the
\* three other children
C23_Witness ==
  /\ pc = "refine"
  /\ eclass = "quad"
  /\ WasRefined /\ calls[1].loop = "refine"
  /\ Len(refine_list) = 7
  /\ SubSeq(refine_list, 1, 4) = t8_element_children(eclass, Presented)
  /\ refine_list[5].level = Presented.level

(***************************************************************************)
(* A refinement consumes one source element                                *)
(***************************************************************************)
\* the step is an iteration of the main loop
MainIteration == pc = "main" /\ el_considered < num_el_from

\* the main loop asks about the window that starts at the cursor, one
\* element or a whole family
WindowAtCursor ==
  /\ calls'[1].op = "adapt" /\ calls'[1].loop = "main"
  /\ calls'[1].n \in {1, num_children}
  /\ calls'[1].elems
       = SubSeq(telements_from, el_considered + 1, el_considered + calls'[1].n)

\* the answer +1 of the main loop: the children of the head of the window,
\* and of no other member, go to the target or to the refine list
RefinesHeadOnly ==
  LET ch == t8_element_children(eclass, telements_from[el_considered + 1])
  IN  calls'[1].ret > 0 =>
        /\ Len(ch) = num_children
        /\ IF set_adapt_recursive
           THEN /\ refine_list' = ch
                /\ pc' = "refine"
                /\ el_considered' = el_considered
                /\ telements' = telements
           ELSE /\ telements' = telements \o ch
                /\ el_considered' = el_considered + 1
                /\ pc' = "main"

\* a window whose head is not a first child is that element alone, and the
\* step moves the cursor to the next element at most
LaterMemberIsHead ==
  t8_element_child_id(eclass, telements_from[el_considered + 1]) # 0 =>
    /\ calls'[1].n = 1
    /\ calls'[1].ret >= 0
    /\ el_considered' \in {el_considered, el_considered + 1}

\* the return of the recursive refinement to the main loop
ReturnsFromRefinement == pc = "refine" /\ pc' # "refine"

\* C24: when the predicate answers +1 in the main loop, on a single element
\* or on a family, the children of the first element of the window, and
\* nothing else, are pushed or handed to the recursive refinement, and the
\* cursor into the source moves on by one once the step is complete.  Every
\* window starts at the cursor, and a window that starts at a second or
\* later child is that element alone and moves the cursor by one, so the
\* other members of a refined family are each the head of a later window.
C24_RefineConsumesHeadOnly ==
  /\ [][MainIteration => WindowAtCursor /\ RefinesHeadOnly /\ LaterMemberIsHead]_vars
  /\ [][ReturnsFromRefinement =>
          pc' = "main" /\ refine > 0 /\ el_considered' = el_considered + 1]_vars
  /\ [][pc = "refine" /\ pc' = "refine" => el_considered' = el_considered]_vars

\* the predicate has answered +1 on a family, and the main loop is now at
\* the second member of that family
C24_Witness ==
  /\ pc = "main"
  /\ el_considered >= 1 /\ el_considered < num_el_from
  /\ calls # <<>> /\ calls[1].op = "adapt" /\ calls[1].loop = "main"
  /\ calls[1].ret > 0
  /\ calls[1].n = num_children
  /\ t8_element_is_family(eclass, calls[1].elems)
  /\ telements_from[el_considered + 1] = calls[1].elems[2]
  /\ SubSeq(telements, el_inserted - num_children + 1, el_inserted)
       = t8_element_children(eclass, calls[1].elems[1])



(***************************************************************************)
(* A predicate that asks for the refinement of an element of the maximum   *)
(* level                                                                   *)
(***************************************************************************)
\* the lines of the assertions of t8_forest_adapt.cxx that the adapt runs
\* through
EngineAssertions == {49, 50, 53, 71, 228, 231, 293}

\* the lines at which the engine calls t8_element_children
ChildrenCallLines == {128, 240, 262}

\* the step asks the predicate about a window whose first element is of the
\* maximum level, and the answer is +1
OverRefines(loop) ==
  /\ pc = loop
  /\ calls' # <<>>
  /\ calls'[1].op = "adapt" /\ calls'[1].loop = loop
  /\ calls'[1].ret > 0
  /\ calls'[1].elems[1].level = t8_element_maxlevel(eclass)

\* the step hands the element to t8_element_children
CallsChildren ==
  /\ Len(calls') >= 2
  /\ calls'[2] = ChildrenCall(calls'[1].elems[1])

C25_WitnessMain ==
  /\ pc = "abort"
  /\ failed \in {240, 262}
  /\ Len(calls) = 2
  /\ calls[1].op = "adapt" /\ calls[1].loop = "main" /\ calls[1].ret > 0
  /\ calls[1].elems[1] = telements_from[el_considered + 1]
  /\ calls[1].elems[1].level = t8_element_maxlevel(eclass)
  /\ calls[2].op = "children"

(***************************************************************************)
(* Windows found by their child ids are families                           *)
(***************************************************************************)
\* the elements carry the child ids 0, 1, ..., num_children - 1 in order
ChildIdsAscend(ec, w) ==
  /\ Len(w) = t8_element_num_children(ec)
  /\ \A j \in 1..Len(w) : t8_element_child_id(ec, w[j]) = j - 1

\* the elements share one parent
CommonParent(ec, w) ==
  /\ w[1].level > 0
  /\ \A j \in 1..Len(w) :
       /\ w[j].level = w[1].level
       /\ t8_element_parent(ec, w[j]) = t8_element_parent(ec, w[1])

\* every window of num_children consecutive elements with ascending child
\* ids is a family
WindowsAreFamilies(ec, elems) ==
  \A p \in 0..(Len(elems) - t8_element_num_children(ec)) :
    LET w == SubSeq(elems, p + 1, p + t8_element_num_children(ec))
    IN  ChildIdsAscend(ec, w) =>
          (CommonParent(ec, w) /\ t8_element_is_family(ec, w))

\* C26: in a source tree that is SFC-sorted and tiles the root, and in the
\* target while the recursive coarsening loop works on it, num_children
\* consecutive elements with the child ids 0, ..., num_children - 1 in
\* order have a common parent, so the assertions that the window found by
\* the child ids is a family (lines 228 and 71) never fail.
C26_ChildIdWindowsAreFamilies ==
  /\ \A i \in 1..Len(forest_from.trees) :
       /\ ValidTree(forest_from.trees[i])
       /\ WindowsAreFamilies(forest_from.trees[i].eclass,
                             forest_from.trees[i].elements)
  /\ pc = "coarsen" => WindowsAreFamilies(eclass, telements)
  /\ failed \notin {71, 228}

\* the coarsening loop has asked the predicate about a window of the target
\* that it found by the child ids, in a tree whose source has such a window
\* as well
C26_Witness ==
  /\ pc = "coarsen"
  /\ failed = 0
  /\ calls # <<>> /\ calls[1].op = "adapt" /\ calls[1].loop = "coarsen"
  /\ ChildIdsAscend(eclass, calls[1].elems)
  /\ t8_element_is_family(eclass, calls[1].elems)
  /\ \E p \in 0..(num_el_from - num_children) :
       ChildIdsAscend(eclass, SubSeq(telements_from, p + 1, p + num_children))

(***************************************************************************)
(* Reads of the source tree                                                *)
(***************************************************************************)
\* the array reads recorded by the last step
IndexCalls == { i \in DOMAIN calls : calls[i].op = "index" }

\* a tree of the source forest is being adapted
InTree == pc \in {"main", "refine", "coarsen"}

SameTree(a, b) ==
  /\ a.eclass = b.eclass
  /\ Len(a.elements) = Len(b.elements)
  /\ \A i \in 1..Len(b.elements) : a.elements[i] = b.elements[i]
  /\ a.elements_offset = b.elements_offset

\* C28: t8_forest_adapt leaves the committed source forest as it was: at
\* every moment of the call and after it every source tree has the element
\* sequence and the elements_offset it had before, and the source forest
\* its element counts, whatever the predicate answers and in both
\* recursive modes.
C28_SourceUnchanged ==
  /\ Len(forest_from.trees) = Len(forest_orig.trees)
  /\ \A t \in 1..Len(forest_orig.trees) :
       SameTree(forest_from.trees[t], forest_orig.trees[t])
  /\ forest_from.local_num_elements = forest_orig.local_num_elements
  /\ forest_from.global_num_elements = forest_orig.global_num_elements
  /\ forest_from.committed

\* an adapt has returned whose last tree holds the parent of a coarsened
\* family and the children of a refined element
C28_Witness ==
  /\ pc = "done"
  /\ \E i \in 1..Len(origin) : origin[i] = "coarsen"
  /\ \E i \in 1..Len(origin) : origin[i] = "refine"
  /\ forest.trees[Len(forest.trees)].elements
       # forest_from.trees[Len(forest.trees)].elements
  /\ forest_from = forest_orig

(***************************************************************************)
(* The cursors into the target                                             *)
(***************************************************************************)
\* the predicate is about to be called by the main loop
AtMainCall == pc = "main" /\ el_considered < num_el_from

\* t8_forest_adapt_coarsen_recursive is at its entry or between two
\* iterations of its loop
AtCoarsenLoop == pc = "coarsen" /\ isfamily = 1

\* the indices of the target read by the next test of the loop condition
\* and, if it holds, by the iteration it starts
CoarsenReads ==
  {el_inserted - 1} \cup
  (IF coarsen_continues(eclass, telements, el_inserted, el_coarsen, pos, isfamily)
   THEN { pos + i : i \in 0..(num_children - 1) } ELSE {})

\* C29: at every call of the predicate by the main loop and at the entry
\* and every iteration of the recursive coarsening loop,
\* 0 <= el_coarsen <= el_inserted and el_inserted is the length of the
\* target array; in the coarsening loop pos = el_inserted - num_children
\* and every index read is in [el_coarsen, el_inserted).
C29_TargetCursorsInRange ==
  /\ (AtMainCall \/ AtCoarsenLoop) =>
       /\ 0 <= el_coarsen
       /\ el_coarsen <= el_inserted
       /\ el_inserted = Len(telements)
  /\ AtCoarsenLoop =>
       /\ pos = el_inserted - num_children
       /\ \A i \in CoarsenReads : el_coarsen <= i /\ i < el_inserted
  /\ failed \notin {49, 50}

\* the coarsening loop has replaced a family by its parent above a floor
\* that a refinement has raised, and goes on with a second iteration
C29_Witness ==
  /\ AtCoarsenLoop
  /\ el_coarsen > 0
  /\ calls # <<>> /\ calls[1].op = "adapt" /\ calls[1].loop = "coarsen"
  /\ calls[1].ret < 0
  /\ coarsen_continues(eclass, telements, el_inserted, el_coarsen, pos, isfamily)

(***************************************************************************)
(* The refine list after the recursive refinement                          *)
(***************************************************************************)
\* C30: in recursive mode the refine list is empty every time
\* t8_forest_adapt_refine_recursive returns, hence whenever the main loop
\* runs and when it ends, so that the drain loop after the main loop finds
\* nothing and its SC_ABORT_NOT_REACHED (line 309) is never executed.
C30_RefineListDrained ==
  /\ [][(pc = "refine" /\ pc' # "refine") =>
          (refine_list = <<>> /\ refine_list' = <<>> /\ pc' = "main")]_vars
  /\ [](pc \in {"main", "coarsen", "tree", "finish", "done"} => refine_list = <<>>)
  /\ [](failed # 309 /\ pc # "abort")

\* the main loop of a tree has ended after a recursive refinement that went
\* two levels down, and the list is empty
C30_Witness ==
  /\ pc = "main"
  /\ set_adapt_recursive
  /\ el_considered = num_el_from
  /\ refine_list = <<>>
  /\ refine > 0
  /\ \E i \in 1..Len(origin) :
       /\ origin[i] = "refine"
       /\ \E j \in 1..num_el_from :
            telements[i].level >= telements_from[j].level + 2
            /\ Covers(eclass, telements_from[j], telements[i])

=============================================================================
